---- MODULE Spec2Model ----
(***************************************************************************)
(* MadTyping: the message sender (platform/windows.rs send_text and the    *)
(* functions it calls), the batch sender (ui.rs Cli::send_all_lines) and   *)
(* the part of the browser loop (ui.rs Cli::run) that starts a batch.      *)
(*                                                                         *)
(* Strings are sequences of Unicode code points.  The operating system is  *)
(* the environment: windows open and close, and the user's key presses     *)
(* arrive in the terminal's input queue, at any moment.                    *)
(***************************************************************************)
EXTENDS Integers, Sequences, FiniteSets, TLC

\* ------------------------------------------------------------------ bounds

\* Capacity of the terminal input queue in the model.
MaxQueue == 2
\* Longest batch (number of lines of a file) in the model.
MaxLines == 5
\* Longest text passed to send_text by a direct caller in the model.
MaxTextLen == 2
\* Longest contents of a file read by TextFile::from_path in the model.
MaxRaw == 4

\* --------------------------------------------------------------- constants

CHAR_TYPE_DELAY_MS == 5
FOCUS_DELAY_MS == 50
CHAT_OPEN_DELAY_MS == 100
AFTER_TYPE_DELAY_MS == 30
AFTER_SEND_DELAY_MS == 50
KEY_PRESS_DELAY_MS == 10
SHIFT_KEY_DELAY_MS == 15
WINDOW_FOCUS_DELAY_MS == 100
NEXT_LINE_DELAY_MS == 100
USER_READ_DELAY_SECS == 2
CANCEL_DELAY_SECS == 1
UNICODE_KEY_DELAY_MS == 5
\* Win32 virtual-key codes of Shift and Enter.
VK_SHIFT == 16
VK_RETURN == 13
\* Size of the title buffer handed to GetWindowTextW, in UTF-16 units.
TitleBufLen == 256

\* The target title (config.rs DEFAULT_WINDOW_TITLE), shortened to "Lo".
WindowTitle == <<76, 111>>

\* ----------------------------------------------------------------- strings

Min(a, b) == IF a < b THEN a ELSE b

\* char::to_lowercase on the letters the model uses (A..Z).
LowerChar(c) == IF c \in 65..90 THEN c + 32 ELSE c

\* str::to_lowercase
to_lowercase(s) == [k \in 1..Len(s) |-> LowerChar(s[k])]

\* str::contains: t occurs in s as a contiguous substring.
contains(s, t) ==
    \E k \in 0..(Len(s) - Len(t)) : SubSeq(s, k + 1, k + Len(t)) = t

\* char::is_whitespace: the characters str::trim removes.
IsWhitespace(c) ==
    c \in (9..13) \cup {32, 133, 160, 5760, 8232, 8233, 8239, 8287, 12288} \cup (8192..8202)

\* str::trim
trim(s) ==
    LET keep == {k \in 1..Len(s) : ~IsWhitespace(s[k])}
    IN  IF keep = {} THEN <<>>
        ELSE SubSeq(s, CHOOSE k \in keep : \A j \in keep : k <= j,
                       CHOOSE k \in keep : \A j \in keep : k >= j)

\* str::lines: the text cut at each "\n"; a "\r" just before the "\n" goes
\* with it; no empty last line after a final "\n".
RECURSIVE str_lines(_)
str_lines(s) ==
    IF s = <<>> THEN <<>>
    ELSE IF \A k \in 1..Len(s) : s[k] # 10 THEN <<s>>
    ELSE LET nl == CHOOSE k \in 1..Len(s) : s[k] = 10 /\ \A j \in 1..(k - 1) : s[j] # 10
             end == IF nl > 1 /\ s[nl - 1] = 13 THEN nl - 2 ELSE nl - 1
         IN  <<SubSeq(s, 1, end)>> \o str_lines(SubSeq(s, nl + 1, Len(s)))

\* ------------------------------------------------------------------- files

\* Option<TextFile>; of a TextFile the model keeps the lines.
None == [some |-> FALSE, lines |-> <<>>]
Some(ls) == [some |-> TRUE, lines |-> ls]

\* from_path keeping the lines as they are read, not trimmed.
from_path_untrimmed(contents) ==
    LET kept == SelectSeq(str_lines(contents), LAMBDA l : l # <<>>)
    IN  IF kept = <<>> THEN None ELSE Some(kept)

\* TextFile::from_path, for a file read_to_string reads as contents.
from_path(contents) ==
    LET read == str_lines(contents)
        trimmed == [k \in 1..Len(read) |-> trim(read[k])]
        kept == SelectSeq(trimmed, LAMBDA l : l # <<>>)
    IN  IF kept = <<>> THEN None ELSE Some(kept)

\* files::discover, for a directory whose supported files have the contents
\* entries: the lines of each file from_path made a TextFile of.
discover(entries) ==
    LET made == SelectSeq([k \in 1..Len(entries) |-> from_path(entries[k])],
                          LAMBDA f : f.some)
    IN  [k \in 1..Len(made) |-> made[k].lines]

\* ----------------------------------------------------------------- windows

\* Window handles; 0 stands for "no window" (None, a null HWND).
Handles == {1, 2}

\* The windows of the locator called directly: 3 has no title, 4 is a
\* second window whose title contains the target, 5 has a title longer than
\* the buffer of GetWindowTextW.
LocHandles == {1, 2, 3, 4, 5}

\* A title one unit longer than the buffer: "y" to the last unit the buffer
\* takes, then "lo".
LongTitle ==
    [k \in 1..(TitleBufLen + 1) |->
        IF k < TitleBufLen THEN 121 ELSE IF k = TitleBufLen THEN 108 ELSE 111]

\* The title of each window: 1 is "lOL" (contains the target whatever the
\* case), 2 is "ol" (does not), 3 has none, 4 is "xLo", 5 is 255 times "y"
\* and then "lo".
TitleOf(h) ==
    CASE h = 1 -> <<108, 79, 76>>
      [] h = 2 -> <<111, 108>>
      [] h = 3 -> <<>>
      [] h = 4 -> <<120, 76, 111>>
      [] OTHER -> LongTitle

\* GetWindowTextW into a [0u16; 256] buffer: the title cut to the buffer, and
\* nothing (length 0) for a handle that is no longer a window.
GetWindowTextW(ws, h) ==
    IF \E k \in 1..Len(ws) : ws[k] = h
    THEN SubSeq(TitleOf(h), 1, Min(Len(TitleOf(h)), TitleBufLen - 1))
    ELSE <<>>

\* The test enum_callback (focus_window) makes on one window: a readable,
\* non-empty title whose lower-cased form contains the search term.
callback_matches(ws, h, term) ==
    LET title == GetWindowTextW(ws, h)
    IN  Len(title) > 0 /\ contains(to_lowercase(title), term)

\* check_callback with the title compared as it is read.
check_callback_exact(ws, h, term) ==
    LET title == GetWindowTextW(ws, h)
    IN  IF Len(title) > 0 THEN contains(title, term) ELSE FALSE

\* The test check_callback (is_window_running) makes on one window.
check_callback(ws, h, term) ==
    LET title == GetWindowTextW(ws, h)
    IN  IF Len(title) > 0 THEN contains(to_lowercase(title), term) ELSE FALSE

\* EnumWindows with a callback that never stops: the handle stored last.
RECURSIVE EnumWindows_last(_, _, _)
EnumWindows_last(ws, k, term) ==
    IF k > Len(ws) THEN 0
    ELSE LET rest == EnumWindows_last(ws, k + 1, term)
         IN  IF rest # 0 THEN rest
             ELSE IF callback_matches(ws, ws[k], term) THEN ws[k] ELSE 0

\* EnumWindows with a callback that stops at its first match: the handle the
\* callback stored, 0 when it stored none.  ws is the enumeration order.
RECURSIVE EnumWindows(_, _, _)
EnumWindows(ws, k, term) ==
    IF k > Len(ws) THEN 0
    ELSE IF callback_matches(ws, ws[k], term) THEN ws[k]
    ELSE EnumWindows(ws, k + 1, term)

\* EnumWindows with check_callback: TRUE when the callback stored true.
RECURSIVE EnumWindowsCheck(_, _, _)
EnumWindowsCheck(ws, k, term) ==
    IF k > Len(ws) THEN FALSE
    ELSE IF check_callback(ws, ws[k], term) THEN TRUE
    ELSE EnumWindowsCheck(ws, k + 1, term)

\* ------------------------------------------------------------- key events

\* One entry of the trace of a send_text call: a key event, a sleep, or an
\* activation request.
Ev(op, kind, val) == [op |-> op, kind |-> kind, val |-> val]
send_key_down(vk) == Ev("down", "vk", vk)
send_key_up(vk) == Ev("up", "vk", vk)
unicode_down(scan) == Ev("down", "uni", scan)
unicode_up(scan) == Ev("up", "uni", scan)
sleep(ms) == Ev("sleep", "ms", ms)
ShowWindow(h, cmd) == Ev(cmd, "hwnd", h)
SetForegroundWindow(h) == Ev("foreground", "hwnd", h)

\* `c as u16`
AsU16(c) == c % 65536

\* VkKeyScanW for the layout of the model (German): -1 when the layout has
\* no key for the UTF-16 unit, else the virtual key in the low byte and the
\* shift state in the high byte (bit 0 Shift, bit 1 Ctrl, bit 2 Alt).  'a'
\* and 'i' are plain keys, 'H' and 'A' want Shift, '@' is AltGr+Q, that is
\* Ctrl+Alt+Q.
VkKeyScanW(u) ==
    CASE u = 97 -> 65
      [] u = 105 -> 73
      [] u = 72 -> 256 + 72
      [] u = 65 -> 256 + 65
      [] u = 64 -> 1536 + 81
      [] OTHER -> -1

\* send_char's decoding of VkKeyScanW's result.
CharVk(c) == VkKeyScanW(AsU16(c)) % 256
CharShift(c) == (VkKeyScanW(AsU16(c)) \div 256) % 2 # 0
CharDirect(c) == VkKeyScanW(AsU16(c)) # -1

\* ------------------------------------------------------------------- state

VARIABLES
    windows,      \* the open top-level windows, in enumeration order
    foreground,   \* the window that holds the input focus (0: some other)
    queue,        \* the terminal's input queue (crossterm events)
    uiPc,         \* where Cli::run / Cli::send_all_lines stands
    appError,     \* App::error_message
    lines,        \* send_all_lines: the lines of the batch
    i,            \* send_all_lines: the loop index (1-based)
    outcome,      \* how the last batch ended
    calls,        \* the line indices send_text was called for, this batch
    failedAt,     \* the index of the line whose send failed, this batch (0: none)
    cancelMark,   \* see InjectKey
    sendPc,       \* where send_text stands
    text,         \* send_text: the text argument
    ci,           \* type_text: characters already typed
    result,       \* send_text: the value returned
    trace,        \* key events, sleeps and activation requests of this call
    phaseLog,     \* the steps of send_text entered by this call, in order
    staleHwnd,    \* this call's focus_window made its requests on a closed window
    CHECK_FOUND,  \* is_window_running's static
    CHECK_TERM,   \* is_window_running's static
    FOUND_HWND,   \* focus_window's static (0: None)
    SEARCH_TERM,  \* focus_window's static
    files,        \* App::files: the lines of each file discovered
    preflight,    \* what the pre-flight check of the last Enter returned
    loc,          \* the last direct call of each locator function
    thr,          \* the locator calls of two threads
    dir,          \* the names of the files in the executable's directory
    app,          \* the App: files (by name), filter, selection, query
    appLog,       \* the last App operation: its name, result, and the App before it
    pauses,       \* send_all_lines: the sleeps (ms) it has made itself, this batch
    view          \* view_file: the line count, visible_lines, scroll_offset, last key

envVars == <<windows, foreground, queue>>
uiVars == <<uiPc, appError, lines, i, outcome, calls, failedAt, cancelMark>>
sendVars == <<sendPc, text, ci, result, trace, phaseLog, staleHwnd>>
statics == <<CHECK_FOUND, CHECK_TERM, FOUND_HWND, SEARCH_TERM>>
appVars == <<dir, app, appLog>>
auxVars == <<files, preflight, loc, thr, appVars, pauses, view>>
vars == <<envVars, uiVars, sendVars, statics, auxVars>>

\* ------------------------------------------------------------------ inputs

\* The texts of the lines of the files: "Hi", a check mark (no key on the
\* layout), "a".
LineTexts == << <<72, 105>>, <<10003>>, <<97>> >>

\* A file of n lines (TextFile.lines).
FileLines(n) == [k \in 1..n |-> LineTexts[((k - 1) % Len(LineTexts)) + 1]]
Files == {FileLines(n) : n \in 1..MaxLines}

\* The characters a direct caller's text is made of: 'H', 'i', '@', a check
\* mark, an emoji above U+FFFF (no key on the layout for either), and
\* U+10041, whose low 16 bits are those of 'A'.
Alphabet == {72, 105, 64, 10003, 128512, 65601}

\* The texts a direct caller of the library's send_text passes: every
\* string of at most MaxTextLen of these characters, the empty one included.
ApiTexts == UNION {[1..n -> Alphabet] : n \in 0..MaxTextLen}

\* The characters of the files: line feed, carriage return, space, 'H', 'a'
\* and a check mark.
RawAlphabet == {10, 13, 32, 72, 97, 10003}

\* The contents of a file: every string of at most MaxRaw of them.
RawContents == UNION {[1..n -> RawAlphabet] : n \in 0..MaxRaw}

\* crossterm key events.  Other/Press stands for every event that neither
\* loop tells apart from it.
KeyEvents == {[code |-> "Esc", kind |-> "Press"], [code |-> "Esc", kind |-> "Release"],
              [code |-> "Enter", kind |-> "Press"], [code |-> "Other", kind |-> "Press"]}

\* The titles a direct caller of the locator asks for: the target "Lo", "X"
\* and the empty title.
LocTitles == {WindowTitle, <<88>>, <<>>}

\* The titles the two threads ask for.
ThreadTitles == {WindowTitle, <<81>>}

\* Every enumeration order of every set of open windows among S.
WindowOrders(S) ==
    UNION {{f \in [1..n -> S] : \A a, b \in 1..n : a # b => f[a] # f[b]} :
           n \in 0..Cardinality(S)}

\* No direct call of the locator made yet.
NoCalls ==
    [running |-> [called |-> FALSE, title |-> <<>>, ret |-> FALSE, before |-> FALSE],
     focus |-> [called |-> FALSE, title |-> <<>>, ret |-> FALSE, hwnd |-> 0,
                requests |-> <<>>, before |-> 0, fg |-> 0]]

\* Two threads call the locator; each is idle at first.
Threads == {1, 2}
IdleThread == [pc |-> "idle", op |-> "none", title |-> <<>>, k |-> 0, ret |-> FALSE]

\* ------------------------------------------------------------- environment

IsOpen(h) == \E k \in 1..Len(windows) : windows[k] = h

\* A window opens; it comes first in the enumeration order.
OpenWindow ==
    /\ uiPc # "exited"
    /\ \E h \in Handles :
        /\ ~IsOpen(h)
        /\ windows' = <<h>> \o windows
    /\ UNCHANGED <<foreground, queue, uiVars, sendVars, statics>>
    /\ UNCHANGED auxVars

\* A window closes; the focus goes elsewhere if it had it.
CloseWindow ==
    /\ uiPc # "exited"
    /\ \E h \in Handles :
        /\ IsOpen(h)
        /\ windows' = SelectSeq(windows, LAMBDA w : w # h)
        /\ foreground' = IF foreground = h THEN 0 ELSE foreground
    /\ UNCHANGED <<queue, uiVars, sendVars, statics>>
    /\ UNCHANGED auxVars

\* send_all_lines stands between two lines: the send of a line that is not
\* the last has returned Ok, or the loop is at its head, before the poll.
BetweenLines ==
    \/ uiPc = "poll"
    \/ uiPc = "wait" /\ sendPc = "ret" /\ result = "Ok" /\ i < Len(lines)

\* The user presses or releases a key.  cancelMark records an Esc that
\* arrives between two lines of a batch (the send of line k has returned,
\* the poll before line k+1 has not run) with nothing else pending: it is
\* set to k.  It is reset when a batch starts.
InjectKey ==
    /\ uiPc \notin {"exited", "api"}
    /\ Len(queue) < MaxQueue
    /\ \E ev \in KeyEvents :
        /\ queue' = Append(queue, ev)
        /\ cancelMark' = IF ev.code = "Esc" /\ BetweenLines /\ queue = <<>>
                         THEN Len(calls) ELSE cancelMark
    /\ UNCHANGED <<windows, foreground, uiPc, appError, lines, i, outcome, calls,
                   failedAt, sendVars, statics>>
    /\ UNCHANGED auxVars

\* --------------------------------------------------------- window locator

\* is_window_running(target_title): the statics it leaves; CHECK_FOUND' is
\* the value returned.
is_window_running(target_title) ==
    /\ CHECK_TERM' = to_lowercase(target_title)
    /\ CHECK_FOUND' = EnumWindowsCheck(windows, 1, to_lowercase(target_title))

\* focus_window_scan without the reset of the handle before enumerating: a
\* handle stored by an earlier call stays when the callback stores none.
focus_window_scan_stale(target_title) ==
    /\ SEARCH_TERM' = to_lowercase(target_title)
    /\ FOUND_HWND' = IF EnumWindows(windows, 1, to_lowercase(target_title)) # 0
                     THEN EnumWindows(windows, 1, to_lowercase(target_title))
                     ELSE FOUND_HWND

\* focus_window, to the end of its enumeration: FOUND_HWND' is what the
\* callback stored.
focus_window_scan(target_title) ==
    /\ SEARCH_TERM' = to_lowercase(target_title)
    /\ FOUND_HWND' = EnumWindows(windows, 1, to_lowercase(target_title))

\* focus_window, the requests made on the handle found; their results are
\* dropped (let _ = ...).  A handle that is no longer a window changes
\* nothing.
focus_window_requests(h) ==
    <<ShowWindow(h, "restore"), ShowWindow(h, "show"), SetForegroundWindow(h),
      sleep(WINDOW_FOCUS_DELAY_MS)>>

\* ---------------------------------------------------------------- send_text

Enter(phase) == phaseLog' = Append(phaseLog, phase)
Emit(es) == trace' = trace \o es

\* CharPc with a cancel check in the typing loop: a pending Esc ends the call
\* where it stands.
CharPc_cancellable(n) ==
    IF queue # <<>> /\ Head(queue).code = "Esc" THEN "ret"
    ELSE IF n >= Len(text) THEN "type_settle"
    ELSE IF ~CharDirect(text[n + 1]) THEN "c_uni_down"
    ELSE IF CharShift(text[n + 1]) THEN "c_shift_down"
    ELSE "c_key_down"

\* Where send_char starts for the character after n typed ones.
CharPc(n) ==
    IF n >= Len(text) THEN "type_settle"
    ELSE IF ~CharDirect(text[n + 1]) THEN "c_uni_down"
    ELSE IF CharShift(text[n + 1]) THEN "c_shift_down"
    ELSE "c_key_down"

\* st_check with the result of the pre-check dropped.
st_check_unchecked ==
    /\ sendPc = "check"
    /\ Enter("CheckRunning")
    /\ is_window_running(WindowTitle)
    /\ sendPc' = "focus_scan"
    /\ result' = result
    /\ UNCHANGED <<envVars, uiVars, staleHwnd, text, ci, trace, FOUND_HWND, SEARCH_TERM>>
    /\ UNCHANGED auxVars

\* Step 1: the pre-check.
st_check ==
    /\ sendPc = "check"
    /\ Enter("CheckRunning")
    /\ is_window_running(WindowTitle)
    /\ IF CHECK_FOUND'
       THEN sendPc' = "focus_scan" /\ result' = result
       ELSE sendPc' = "ret" /\ result' = "TargetNotRunning"
    /\ UNCHANGED <<envVars, uiVars, staleHwnd, text, ci, trace, FOUND_HWND, SEARCH_TERM>>
    /\ UNCHANGED auxVars

\* st_focus_scan with focus_window's false dropped: the call goes on.
st_focus_scan_ignored ==
    /\ sendPc = "focus_scan"
    /\ Enter("Activate")
    /\ focus_window_scan(WindowTitle)
    /\ sendPc' = IF FOUND_HWND' # 0 THEN "focus_act" ELSE "settle"
    /\ result' = result
    /\ UNCHANGED <<envVars, uiVars, staleHwnd, text, ci, trace, CHECK_FOUND, CHECK_TERM>>
    /\ UNCHANGED auxVars

\* Step 2, first half: focus_window enumerates.
st_focus_scan ==
    /\ sendPc = "focus_scan"
    /\ Enter("Activate")
    /\ focus_window_scan(WindowTitle)
    /\ IF FOUND_HWND' # 0
       THEN sendPc' = "focus_act" /\ result' = result
       ELSE sendPc' = "ret" /\ result' = "WindowNotFound"
    /\ UNCHANGED <<envVars, uiVars, staleHwnd, text, ci, trace, CHECK_FOUND, CHECK_TERM>>
    /\ UNCHANGED auxVars

\* Step 2, second half: focus_window restores, shows and raises the window
\* found, sleeps and returns true.
st_focus_act ==
    /\ sendPc = "focus_act"
    /\ Emit(focus_window_requests(FOUND_HWND))
    /\ foreground' = IF IsOpen(FOUND_HWND) THEN FOUND_HWND ELSE foreground
    /\ staleHwnd' = ~IsOpen(FOUND_HWND)
    /\ sendPc' = "settle"
    /\ UNCHANGED <<windows, queue, uiVars, text, ci, result, phaseLog, statics>>
    /\ UNCHANGED auxVars

\* Step 3.
st_settle ==
    /\ sendPc = "settle"
    /\ Enter("Settle")
    /\ Emit(<<sleep(FOCUS_DELAY_MS)>>)
    /\ sendPc' = "chat_shift_down"
    /\ UNCHANGED <<envVars, uiVars, staleHwnd, text, ci, result, statics>>
    /\ UNCHANGED auxVars

\* Step 4: Shift+Enter, one key event a step.
st_chat_shift_down ==
    /\ sendPc = "chat_shift_down"
    /\ Enter("OpenChat")
    /\ Emit(<<send_key_down(VK_SHIFT), sleep(SHIFT_KEY_DELAY_MS)>>)
    /\ sendPc' = "chat_enter_down"
    /\ UNCHANGED <<envVars, uiVars, staleHwnd, text, ci, result, statics>>
    /\ UNCHANGED auxVars

st_chat_enter_down ==
    /\ sendPc = "chat_enter_down"
    /\ Emit(<<send_key_down(VK_RETURN), sleep(KEY_PRESS_DELAY_MS)>>)
    /\ sendPc' = "chat_enter_up"
    /\ UNCHANGED <<envVars, uiVars, staleHwnd, text, ci, result, phaseLog, statics>>
    /\ UNCHANGED auxVars

st_chat_enter_up ==
    /\ sendPc = "chat_enter_up"
    /\ Emit(<<send_key_up(VK_RETURN), sleep(SHIFT_KEY_DELAY_MS)>>)
    /\ sendPc' = "chat_shift_up"
    /\ UNCHANGED <<envVars, uiVars, staleHwnd, text, ci, result, phaseLog, statics>>
    /\ UNCHANGED auxVars

st_chat_shift_up ==
    /\ sendPc = "chat_shift_up"
    /\ Emit(<<send_key_up(VK_SHIFT)>>)
    /\ sendPc' = "open_settle"
    /\ UNCHANGED <<envVars, uiVars, staleHwnd, text, ci, result, phaseLog, statics>>
    /\ UNCHANGED auxVars

\* st_open_settle going straight to the settle after typing.
st_open_settle_skip ==
    /\ sendPc = "open_settle"
    /\ Enter("OpenSettle")
    /\ Emit(<<sleep(CHAT_OPEN_DELAY_MS)>>)
    /\ sendPc' = "type_settle"
    /\ UNCHANGED <<envVars, uiVars, staleHwnd, text, ci, result, statics>>
    /\ UNCHANGED auxVars

\* Step 5.
st_open_settle ==
    /\ sendPc = "open_settle"
    /\ Enter("OpenSettle")
    /\ Emit(<<sleep(CHAT_OPEN_DELAY_MS)>>)
    /\ sendPc' = "type"
    /\ UNCHANGED <<envVars, uiVars, staleHwnd, text, ci, result, statics>>
    /\ UNCHANGED auxVars

\* type_text starting its loop at the second character.
type_text_skip_first ==
    /\ sendPc = "type"
    /\ Enter("Type")
    /\ ci' = Min(1, Len(text))
    /\ sendPc' = CharPc(1)
    /\ UNCHANGED <<envVars, uiVars, staleHwnd, text, result, trace, statics>>
    /\ UNCHANGED auxVars

\* type_text as a do-while: the inter-character sleep runs once before the
\* end of the text is tested.
type_text_delay_first ==
    /\ sendPc = "type"
    /\ Enter("Type")
    /\ ci' = 0
    /\ Emit(<<sleep(CHAR_TYPE_DELAY_MS)>>)
    /\ sendPc' = CharPc(0)
    /\ UNCHANGED <<envVars, uiVars, staleHwnd, text, result, statics>>
    /\ UNCHANGED auxVars

\* Step 6: type_text is called; its loop starts at the first character.
type_text ==
    /\ sendPc = "type"
    /\ Enter("Type")
    /\ ci' = 0
    /\ sendPc' = CharPc(0)
    /\ UNCHANGED <<envVars, uiVars, staleHwnd, text, result, trace, statics>>
    /\ UNCHANGED auxVars

\* send_char, a character the layout has a key for.
sc_shift_down ==
    /\ sendPc = "c_shift_down"
    /\ Emit(<<send_key_down(VK_SHIFT), sleep(SHIFT_KEY_DELAY_MS)>>)
    /\ sendPc' = "c_key_down"
    /\ UNCHANGED <<envVars, uiVars, staleHwnd, text, ci, result, phaseLog, statics>>
    /\ UNCHANGED auxVars

\* sc_key_down with the key released at once: no sleep after the down.
sc_key_down_no_dwell ==
    /\ sendPc = "c_key_down"
    /\ Emit(<<send_key_down(CharVk(text[ci + 1]))>>)
    /\ sendPc' = "c_key_up"
    /\ UNCHANGED <<envVars, uiVars, staleHwnd, text, ci, result, phaseLog, statics>>
    /\ UNCHANGED auxVars

sc_key_down ==
    /\ sendPc = "c_key_down"
    /\ Emit(<<send_key_down(CharVk(text[ci + 1])), sleep(KEY_PRESS_DELAY_MS)>>)
    /\ sendPc' = "c_key_up"
    /\ UNCHANGED <<envVars, uiVars, staleHwnd, text, ci, result, phaseLog, statics>>
    /\ UNCHANGED auxVars

\* sc_key_up without the release of Shift after a shifted key.
sc_key_up_shift_held ==
    /\ sendPc = "c_key_up"
    /\ Emit(<<send_key_up(CharVk(text[ci + 1])), sleep(CHAR_TYPE_DELAY_MS)>>)
    /\ sendPc' = CharPc(ci + 1)
    /\ ci' = ci + 1
    /\ UNCHANGED <<envVars, uiVars, staleHwnd, text, result, phaseLog, statics>>
    /\ UNCHANGED auxVars

sc_key_up ==
    /\ sendPc = "c_key_up"
    /\ IF CharShift(text[ci + 1])
       THEN /\ Emit(<<send_key_up(CharVk(text[ci + 1])), sleep(SHIFT_KEY_DELAY_MS)>>)
            /\ sendPc' = "c_shift_up"
            /\ ci' = ci
       ELSE /\ Emit(<<send_key_up(CharVk(text[ci + 1])), sleep(CHAR_TYPE_DELAY_MS)>>)
            /\ sendPc' = CharPc(ci + 1)
            /\ ci' = ci + 1
    /\ UNCHANGED <<envVars, uiVars, staleHwnd, text, result, phaseLog, statics>>
    /\ UNCHANGED auxVars

\* sc_shift_up with the inter-character sleep run before Shift is released.
sc_shift_up_late ==
    /\ sendPc = "c_shift_up"
    /\ Emit(<<sleep(CHAR_TYPE_DELAY_MS), send_key_up(VK_SHIFT)>>)
    /\ sendPc' = CharPc(ci + 1)
    /\ ci' = ci + 1
    /\ UNCHANGED <<envVars, uiVars, staleHwnd, text, result, phaseLog, statics>>
    /\ UNCHANGED auxVars

sc_shift_up ==
    /\ sendPc = "c_shift_up"
    /\ Emit(<<send_key_up(VK_SHIFT), sleep(CHAR_TYPE_DELAY_MS)>>)
    /\ sendPc' = CharPc(ci + 1)
    /\ ci' = ci + 1
    /\ UNCHANGED <<envVars, uiVars, staleHwnd, text, result, phaseLog, statics>>
    /\ UNCHANGED auxVars

\* send_char, the Unicode fallback: wScan is `c as u16`.
sc_uni_down ==
    /\ sendPc = "c_uni_down"
    /\ Emit(<<unicode_down(AsU16(text[ci + 1])), sleep(UNICODE_KEY_DELAY_MS)>>)
    /\ sendPc' = "c_uni_up"
    /\ UNCHANGED <<envVars, uiVars, staleHwnd, text, ci, result, phaseLog, statics>>
    /\ UNCHANGED auxVars

sc_uni_up ==
    /\ sendPc = "c_uni_up"
    /\ Emit(<<unicode_up(AsU16(text[ci + 1])), sleep(CHAR_TYPE_DELAY_MS)>>)
    /\ sendPc' = CharPc(ci + 1)
    /\ ci' = ci + 1
    /\ UNCHANGED <<envVars, uiVars, staleHwnd, text, result, phaseLog, statics>>
    /\ UNCHANGED auxVars

\* Step 7.
st_type_settle ==
    /\ sendPc = "type_settle"
    /\ Enter("TypeSettle")
    /\ Emit(<<sleep(AFTER_TYPE_DELAY_MS)>>)
    /\ sendPc' = "submit_down"
    /\ UNCHANGED <<envVars, uiVars, staleHwnd, text, ci, result, statics>>
    /\ UNCHANGED auxVars

\* Step 8: Enter.
st_submit_down ==
    /\ sendPc = "submit_down"
    /\ Enter("Submit")
    /\ Emit(<<send_key_down(VK_RETURN), sleep(KEY_PRESS_DELAY_MS)>>)
    /\ sendPc' = "submit_up"
    /\ UNCHANGED <<envVars, uiVars, staleHwnd, text, ci, result, statics>>
    /\ UNCHANGED auxVars

st_submit_up ==
    /\ sendPc = "submit_up"
    /\ Emit(<<send_key_up(VK_RETURN)>>)
    /\ sendPc' = "send_settle"
    /\ UNCHANGED <<envVars, uiVars, staleHwnd, text, ci, result, phaseLog, statics>>
    /\ UNCHANGED auxVars

\* Step 9, and Ok(()).
st_send_settle ==
    /\ sendPc = "send_settle"
    /\ Enter("SendSettle")
    /\ Emit(<<sleep(AFTER_SEND_DELAY_MS)>>)
    /\ result' = "Ok"
    /\ sendPc' = "ret"
    /\ UNCHANGED <<envVars, uiVars, staleHwnd, text, ci, statics>>
    /\ UNCHANGED auxVars

\* One step of a send_text call in progress.
send_text ==
    \/ st_check
    \/ st_focus_scan
    \/ st_focus_act
    \/ st_settle
    \/ st_chat_shift_down
    \/ st_chat_enter_down
    \/ st_chat_enter_up
    \/ st_chat_shift_up
    \/ st_open_settle
    \/ type_text
    \/ sc_shift_down
    \/ sc_key_down
    \/ sc_key_up
    \/ sc_shift_up
    \/ sc_uni_down
    \/ sc_uni_up
    \/ st_type_settle
    \/ st_submit_down
    \/ st_submit_up
    \/ st_send_settle

\* send_text is entered with its arguments.
CallSendText(t) ==
    /\ sendPc' = "check"
    /\ text' = t
    /\ ci' = 0
    /\ result' = "none"
    /\ trace' = <<>>
    /\ phaseLog' = <<>>
    /\ staleHwnd' = FALSE

\* ------------------------------------------------------------ Cli::run

\* event::read() returned an event that is not a key press: continue.
run_release ==
    /\ uiPc = "browse"
    /\ queue # <<>>
    /\ Head(queue).kind # "Press"
    /\ queue' = Tail(queue)
    /\ UNCHANGED <<windows, foreground, uiVars, sendVars, statics>>
    /\ UNCHANGED auxVars

\* KeyCode::Esc: run returns.
run_esc ==
    /\ uiPc = "browse"
    /\ queue # <<>>
    /\ Head(queue) = [code |-> "Esc", kind |-> "Press"]
    /\ queue' = Tail(queue)
    /\ uiPc' = "exited"
    /\ UNCHANGED <<windows, foreground, appError, lines, i, outcome, calls, failedAt,
                   cancelMark, sendVars, statics>>
    /\ UNCHANGED auxVars

\* Any other key the browser handles: the arrows, a character and Backspace
\* clear the error message, the rest leave it.
run_other ==
    /\ uiPc = "browse"
    /\ queue # <<>>
    /\ Head(queue) = [code |-> "Other", kind |-> "Press"]
    /\ queue' = Tail(queue)
    /\ appError' \in {appError, "none"}
    /\ UNCHANGED <<windows, foreground, uiPc, lines, i, outcome, calls, failedAt,
                   cancelMark, sendVars, statics>>
    /\ UNCHANGED auxVars

\* run_enter with the result of the pre-flight check only shown, not obeyed:
\* the batch starts whatever it is.
run_enter_no_preflight ==
    /\ uiPc = "browse"
    /\ queue # <<>>
    /\ Head(queue) = [code |-> "Enter", kind |-> "Press"]
    /\ queue' = Tail(queue)
    /\ \E sel \in {files[k] : k \in 1..Len(files)} \cup {<<>>} :
        IF sel = <<>>
        THEN /\ appError' = "none"
             /\ preflight' = "none"
             /\ UNCHANGED <<uiPc, lines, i, outcome, calls, failedAt, cancelMark, pauses, statics>>
        ELSE /\ is_window_running(WindowTitle)
             /\ UNCHANGED <<FOUND_HWND, SEARCH_TERM>>
             /\ preflight' = IF CHECK_FOUND' THEN "true" ELSE "false"
             /\ appError' = IF CHECK_FOUND' THEN "none" ELSE "not_running"
             /\ uiPc' = "poll"
             /\ lines' = sel
             /\ i' = 1
             /\ outcome' = "running"
             /\ calls' = <<>>
             /\ failedAt' = 0
             /\ cancelMark' = -1
             /\ pauses' = <<>>
    /\ UNCHANGED <<windows, foreground, sendVars>>
    /\ UNCHANGED <<loc, thr, files, appVars, view>>

\* KeyCode::Enter: with a file selected (sel, the lines of one of the files;
\* <<>> stands for None, the filtered list being empty), the pre-flight
\* check, then send_all_lines is entered.
run_enter ==
    /\ uiPc = "browse"
    /\ queue # <<>>
    /\ Head(queue) = [code |-> "Enter", kind |-> "Press"]
    /\ queue' = Tail(queue)
    /\ \E sel \in {files[k] : k \in 1..Len(files)} \cup {<<>>} :
        IF sel = <<>>
        THEN /\ appError' = "none"
             /\ preflight' = "none"
             /\ UNCHANGED <<uiPc, lines, i, outcome, calls, failedAt, cancelMark, pauses, statics>>
        ELSE /\ is_window_running(WindowTitle)
             /\ UNCHANGED <<FOUND_HWND, SEARCH_TERM>>
             /\ preflight' = IF CHECK_FOUND' THEN "true" ELSE "false"
             /\ IF ~CHECK_FOUND'
                THEN /\ appError' = "not_running"
                     /\ UNCHANGED <<uiPc, lines, i, outcome, calls, failedAt, cancelMark, pauses>>
                ELSE /\ appError' = "none"
                     /\ uiPc' = "poll"
                     /\ lines' = sel
                     /\ i' = 1
                     /\ outcome' = "running"
                     /\ calls' = <<>>
                     /\ failedAt' = 0
                     /\ cancelMark' = -1
                     /\ pauses' = <<>>
    /\ UNCHANGED <<windows, foreground, sendVars>>
    /\ UNCHANGED <<loc, thr, files, appVars, view>>

\* --------------------------------------------------- Cli::send_all_lines

\* sal_poll that reads the event and never returns on it.
sal_poll_no_cancel ==
    /\ uiPc = "poll"
    /\ queue' = IF queue # <<>> THEN Tail(queue) ELSE queue
    /\ uiPc' = "call"
    /\ UNCHANGED <<windows, foreground, appError, lines, i, outcome, calls, failedAt,
                   cancelMark, sendVars, statics>>
    /\ UNCHANGED auxVars

\* The head of the loop for line i: poll(10ms), and read() when an event is
\* there.  An Esc key event returns; any other event is dropped.
sal_poll ==
    /\ uiPc = "poll"
    /\ IF queue # <<>>
       THEN /\ queue' = Tail(queue)
            /\ IF Head(queue).code = "Esc"
               THEN /\ uiPc' = "browse"
                    /\ outcome' = "cancelled"
                    /\ pauses' = Append(pauses, 1000 * CANCEL_DELAY_SECS)
               ELSE uiPc' = "call" /\ outcome' = outcome /\ pauses' = pauses
       ELSE /\ queue' = queue
            /\ uiPc' = "call"
            /\ outcome' = outcome
            /\ pauses' = pauses
    /\ UNCHANGED <<windows, foreground, appError, lines, i, calls, failedAt, cancelMark,
                   sendVars, statics>>
    /\ UNCHANGED <<files, preflight, loc, thr, appVars, view>>

\* send_text(line, &self.window_title) is called for line i.
sal_call ==
    /\ uiPc = "call"
    /\ CallSendText(lines[i])
    /\ calls' = Append(calls, i)
    /\ uiPc' = "wait"
    /\ UNCHANGED <<envVars, appError, lines, i, outcome, failedAt, cancelMark, statics>>
    /\ UNCHANGED auxVars

\* sal_after that skips a failed line and goes on with the next.
sal_after_continue ==
    /\ uiPc = "wait"
    /\ sendPc = "ret"
    /\ sendPc' = "idle"
    /\ failedAt' = IF result = "Ok" THEN failedAt ELSE i
    /\ IF i < Len(lines)
       THEN /\ i' = i + 1 /\ uiPc' = "poll" /\ outcome' = outcome
            /\ pauses' = Append(pauses, NEXT_LINE_DELAY_MS)
       ELSE /\ i' = i /\ uiPc' = "browse" /\ outcome' = "done"
            /\ pauses' = pauses \o <<NEXT_LINE_DELAY_MS, 1000 * USER_READ_DELAY_SECS>>
    /\ UNCHANGED <<envVars, appError, lines, calls, cancelMark, staleHwnd, text, ci, result, trace,
                   phaseLog, statics>>
    /\ UNCHANGED <<files, preflight, loc, thr, appVars, view>>

\* sal_after going on to the next line at once, without the sleep.
sal_after_no_delay ==
    /\ uiPc = "wait"
    /\ sendPc = "ret"
    /\ sendPc' = "idle"
    /\ IF result = "Ok"
       THEN /\ failedAt' = failedAt
            /\ IF i < Len(lines)
               THEN /\ i' = i + 1 /\ uiPc' = "poll" /\ outcome' = outcome
                    /\ pauses' = pauses
               ELSE /\ i' = i /\ uiPc' = "browse" /\ outcome' = "done"
                    /\ pauses' = Append(pauses, 1000 * USER_READ_DELAY_SECS)
       ELSE /\ failedAt' = i
            /\ i' = i
            /\ uiPc' = "browse"
            /\ outcome' = "failed"
            /\ pauses' = Append(pauses, 1000 * USER_READ_DELAY_SECS)
    /\ UNCHANGED <<envVars, appError, lines, calls, cancelMark, staleHwnd, text, ci, result, trace,
                   phaseLog, statics>>
    /\ UNCHANGED <<files, preflight, loc, thr, appVars, view>>

\* send_text returned: Ok sleeps and goes on to the next line, or ends the
\* batch after the last; Err returns.
sal_after ==
    /\ uiPc = "wait"
    /\ sendPc = "ret"
    /\ sendPc' = "idle"
    /\ IF result = "Ok"
       THEN /\ failedAt' = failedAt
            /\ IF i < Len(lines)
               THEN /\ i' = i + 1 /\ uiPc' = "poll" /\ outcome' = outcome
                    /\ pauses' = Append(pauses, NEXT_LINE_DELAY_MS)
               ELSE /\ i' = i /\ uiPc' = "browse" /\ outcome' = "done"
                    /\ pauses' = pauses \o <<NEXT_LINE_DELAY_MS, 1000 * USER_READ_DELAY_SECS>>
       ELSE /\ failedAt' = i
            /\ i' = i
            /\ uiPc' = "browse"
            /\ outcome' = "failed"
            /\ pauses' = Append(pauses, 1000 * USER_READ_DELAY_SECS)
    /\ UNCHANGED <<envVars, appError, lines, calls, cancelMark, staleHwnd, text, ci, result, trace,
                   phaseLog, statics>>
    /\ UNCHANGED <<files, preflight, loc, thr, appVars, view>>

\* ------------------------------------------- a platform other than Windows

\* The stub of send_text returning Ok(()) without doing anything.
send_text_stub_ok ==
    /\ sendPc = "check"
    /\ sendPc' = "ret"
    /\ result' = "Ok"
    /\ UNCHANGED <<envVars, uiVars, text, ci, trace, phaseLog, staleHwnd, statics, auxVars>>

\* The stub of send_text: Err("Keyboard simulation only supported on
\* Windows"), and nothing else.
send_text_stub ==
    /\ sendPc = "check"
    /\ sendPc' = "ret"
    /\ result' = "UnsupportedPlatform"
    /\ UNCHANGED <<envVars, uiVars, text, ci, trace, phaseLog, staleHwnd, statics, auxVars>>

\* KeyCode::Enter where is_window_running is the stub, which returns true.
run_enter_stub ==
    /\ uiPc = "browse"
    /\ queue # <<>>
    /\ Head(queue) = [code |-> "Enter", kind |-> "Press"]
    /\ queue' = Tail(queue)
    /\ appError' = "none"
    /\ \E sel \in {files[k] : k \in 1..Len(files)} \cup {<<>>} :
        IF sel = <<>>
        THEN /\ preflight' = "none"
             /\ UNCHANGED <<uiPc, lines, i, outcome, calls, failedAt, cancelMark, pauses>>
        ELSE /\ preflight' = "true"
             /\ uiPc' = "poll"
             /\ lines' = sel
             /\ i' = 1
             /\ outcome' = "running"
             /\ calls' = <<>>
             /\ failedAt' = 0
             /\ cancelMark' = -1
             /\ pauses' = <<>>
    /\ UNCHANGED <<windows, foreground, sendVars, statics, files, loc, thr, appVars, view>>

\* ------------------------------------------------- the library's send_text

\* A caller of the library calls send_text with a text of its own.
api_call ==
    /\ uiPc = "api"
    /\ sendPc = "idle"
    /\ \E t \in ApiTexts : CallSendText(t)
    /\ UNCHANGED <<envVars, uiVars, statics>>
    /\ UNCHANGED auxVars

api_return ==
    /\ uiPc = "api"
    /\ sendPc = "ret"
    /\ sendPc' = "idle"
    /\ UNCHANGED <<envVars, uiVars, staleHwnd, text, ci, result, trace, phaseLog, statics>>
    /\ UNCHANGED auxVars

\* ------------------------------------------- the locator, called directly

\* A window closes between two calls of the locator.  The record of the
\* calls made starts anew: it is about the windows as they are.
loc_close ==
    /\ uiPc = "locator"
    /\ \E h \in LocHandles :
        /\ IsOpen(h)
        /\ windows' = SelectSeq(windows, LAMBDA w : w # h)
        /\ foreground' = IF foreground = h THEN 0 ELSE foreground
    /\ loc' = NoCalls
    /\ UNCHANGED <<queue, uiVars, sendVars, statics, files, preflight, thr, appVars, pauses, view>>

\* A caller of the library calls is_window_running(t).  `before` is what
\* the static held when the call was made.
loc_is_window_running ==
    /\ uiPc = "locator"
    /\ \E t \in LocTitles :
        /\ is_window_running(t)
        /\ loc' = [loc EXCEPT !.running = [called |-> TRUE, title |-> t,
                                           ret |-> CHECK_FOUND', before |-> CHECK_FOUND]]
    /\ UNCHANGED <<envVars, uiVars, sendVars, FOUND_HWND, SEARCH_TERM, files, preflight, thr, appVars, pauses, view>>

\* loc_focus_window taking a window that has the foreground already for a
\* failure: it returns false then.
loc_focus_window_once ==
    /\ uiPc = "locator"
    /\ \E t \in LocTitles :
        /\ focus_window_scan(t)
        /\ IF FOUND_HWND' # 0
           THEN /\ loc' = [loc EXCEPT !.focus =
                            [called |-> TRUE, title |-> t, ret |-> (foreground # FOUND_HWND'),
                             hwnd |-> FOUND_HWND',
                             requests |-> focus_window_requests(FOUND_HWND'),
                             before |-> FOUND_HWND, fg |-> foreground]]
                /\ foreground' = IF IsOpen(FOUND_HWND') THEN FOUND_HWND' ELSE foreground
           ELSE /\ loc' = [loc EXCEPT !.focus =
                            [called |-> TRUE, title |-> t, ret |-> FALSE,
                             hwnd |-> 0, requests |-> <<>>, before |-> FOUND_HWND,
                             fg |-> foreground]]
                /\ foreground' = foreground
    /\ UNCHANGED <<windows, queue, uiVars, sendVars, CHECK_FOUND, CHECK_TERM, files,
                   preflight, thr, appVars, pauses, view>>

\* A caller of the library calls focus_window(t).  `before` is what the
\* static held, `fg` the foreground window, when the call was made.
loc_focus_window ==
    /\ uiPc = "locator"
    /\ \E t \in LocTitles :
        /\ focus_window_scan(t)
        /\ IF FOUND_HWND' # 0
           THEN /\ loc' = [loc EXCEPT !.focus =
                            [called |-> TRUE, title |-> t, ret |-> TRUE,
                             hwnd |-> FOUND_HWND',
                             requests |-> focus_window_requests(FOUND_HWND'),
                             before |-> FOUND_HWND, fg |-> foreground]]
                /\ foreground' = IF IsOpen(FOUND_HWND') THEN FOUND_HWND' ELSE foreground
           ELSE /\ loc' = [loc EXCEPT !.focus =
                            [called |-> TRUE, title |-> t, ret |-> FALSE,
                             hwnd |-> 0, requests |-> <<>>, before |-> FOUND_HWND,
                             fg |-> foreground]]
                /\ foreground' = foreground
    /\ UNCHANGED <<windows, queue, uiVars, sendVars, CHECK_FOUND, CHECK_TERM, files,
                   preflight, thr, appVars, pauses, view>>

\* --------------------------------------- the locator, called by two threads

\* Where a thread's enumeration stands after the callback of window k
\* returned TRUE (continue), and where it starts.
EnumPc(k) == IF k > Len(windows) THEN "read" ELSE "enum"

\* Thread t calls one of the two functions.
thr_call(t) ==
    /\ uiPc = "threads"
    /\ thr[t].pc \in {"idle", "done"}
    /\ \E op \in {"is_window_running", "focus_window"}, title \in ThreadTitles :
        thr' = [thr EXCEPT ![t] = [pc |-> "set", op |-> op, title |-> title,
                                   k |-> 0, ret |-> FALSE]]
    /\ UNCHANGED <<envVars, uiVars, sendVars, statics, files, preflight, loc, appVars, pauses, view>>

\* is_window_running: the term is stored and the flag reset, both locks held.
thr_check_set(t) ==
    /\ uiPc = "threads"
    /\ thr[t].pc = "set"
    /\ thr[t].op = "is_window_running"
    /\ CHECK_TERM' = to_lowercase(thr[t].title)
    /\ CHECK_FOUND' = FALSE
    /\ thr' = [thr EXCEPT ![t].pc = EnumPc(1), ![t].k = 1]
    /\ UNCHANGED <<envVars, uiVars, sendVars, FOUND_HWND, SEARCH_TERM, files, preflight, loc, appVars, pauses, view>>

\* is_window_running: check_callback on the next window; it reads the term
\* under its lock.
thr_check_callback(t) ==
    /\ uiPc = "threads"
    /\ thr[t].pc = "enum"
    /\ thr[t].op = "is_window_running"
    /\ IF check_callback(windows, windows[thr[t].k], CHECK_TERM)
       THEN /\ CHECK_FOUND' = TRUE
            /\ thr' = [thr EXCEPT ![t].pc = "read"]
       ELSE /\ CHECK_FOUND' = CHECK_FOUND
            /\ thr' = [thr EXCEPT ![t].pc = EnumPc(thr[t].k + 1), ![t].k = thr[t].k + 1]
    /\ UNCHANGED <<envVars, uiVars, sendVars, CHECK_TERM, FOUND_HWND, SEARCH_TERM, files,
                   preflight, loc, appVars, pauses, view>>

\* is_window_running returns the flag.
thr_check_return(t) ==
    /\ uiPc = "threads"
    /\ thr[t].pc = "read"
    /\ thr[t].op = "is_window_running"
    /\ thr' = [thr EXCEPT ![t].pc = "done", ![t].ret = CHECK_FOUND]
    /\ UNCHANGED <<envVars, uiVars, sendVars, statics, files, preflight, loc, appVars, pauses, view>>

\* focus_window: the term is stored.
thr_focus_set(t) ==
    /\ uiPc = "threads"
    /\ thr[t].pc = "set"
    /\ thr[t].op = "focus_window"
    /\ SEARCH_TERM' = to_lowercase(thr[t].title)
    /\ thr' = [thr EXCEPT ![t].pc = "reset"]
    /\ UNCHANGED <<envVars, uiVars, sendVars, CHECK_FOUND, CHECK_TERM, FOUND_HWND, files,
                   preflight, loc, appVars, pauses, view>>

\* focus_window: the handle is reset.
thr_focus_reset(t) ==
    /\ uiPc = "threads"
    /\ thr[t].pc = "reset"
    /\ FOUND_HWND' = 0
    /\ thr' = [thr EXCEPT ![t].pc = EnumPc(1), ![t].k = 1]
    /\ UNCHANGED <<envVars, uiVars, sendVars, CHECK_FOUND, CHECK_TERM, SEARCH_TERM, files,
                   preflight, loc, appVars, pauses, view>>

\* focus_window: enum_callback on the next window.
thr_focus_callback(t) ==
    /\ uiPc = "threads"
    /\ thr[t].pc = "enum"
    /\ thr[t].op = "focus_window"
    /\ IF callback_matches(windows, windows[thr[t].k], SEARCH_TERM)
       THEN /\ FOUND_HWND' = windows[thr[t].k]
            /\ thr' = [thr EXCEPT ![t].pc = "read"]
       ELSE /\ FOUND_HWND' = FOUND_HWND
            /\ thr' = [thr EXCEPT ![t].pc = EnumPc(thr[t].k + 1), ![t].k = thr[t].k + 1]
    /\ UNCHANGED <<envVars, uiVars, sendVars, CHECK_FOUND, CHECK_TERM, SEARCH_TERM, files,
                   preflight, loc, appVars, pauses, view>>

\* focus_window: with a handle stored, the requests, and true; else false.
thr_focus_return(t) ==
    /\ uiPc = "threads"
    /\ thr[t].pc = "read"
    /\ thr[t].op = "focus_window"
    /\ thr' = [thr EXCEPT ![t].pc = "done", ![t].ret = (FOUND_HWND # 0)]
    /\ foreground' = IF IsOpen(FOUND_HWND) THEN FOUND_HWND ELSE foreground
    /\ UNCHANGED <<windows, queue, uiVars, sendVars, statics, files, preflight, loc, appVars, pauses, view>>

\* ------------------------------------------------------------------ the App

\* The file names of the executable's directory: "a.txt", "B.MD", "ab.md",
\* "c.rs", "txt" (no extension) and ".md" (a dot file).  Every file has a
\* line of text in it.
DirNames ==
    {<<97, 46, 116, 120, 116>>, <<66, 46, 77, 68>>, <<97, 98, 46, 109, 100>>,
     <<99, 46, 114, 115>>, <<116, 120, 116>>, <<46, 109, 100>>}

\* The characters typed into the search box: 'a' and 'B'.
SearchChars == {97, 66}

\* The search query is at most this long.
MaxQuery == 2

\* config.rs: "txt" and "md".
SUPPORTED_EXTENSIONS == {<<116, 120, 116>>, <<109, 100>>}

\* Path::extension of a file name: what follows its last '.'; none when
\* the name has no '.', or begins with its only '.'.
extension(name) ==
    LET dots == {k \in 1..Len(name) : name[k] = 46}
        last == CHOOSE k \in dots : \A j \in dots : j <= k
    IN  IF dots = {} \/ last = 1
        THEN [some |-> FALSE, ext |-> <<>>]
        ELSE [some |-> TRUE, ext |-> SubSeq(name, last + 1, Len(name))]

\* is_supported_extension comparing the extension as it is spelt.
is_supported_extension_exact(name) ==
    LET ext == extension(name)
    IN  IF ext.some THEN ext.ext \in SUPPORTED_EXTENSIONS ELSE FALSE

\* files::is_supported_extension
is_supported_extension(name) ==
    LET ext == extension(name)
    IN  IF ext.some THEN to_lowercase(ext.ext) \in SUPPORTED_EXTENSIONS ELSE FALSE

\* String's Ord: lexicographic on the code points.
StrLess(a, b) ==
    \E k \in 1..(Len(a) + 1) :
        /\ \A j \in 1..(k - 1) : j <= Len(b) /\ a[j] = b[j]
        /\ IF k > Len(a) THEN Len(b) >= k ELSE (k <= Len(b) /\ a[k] < b[k])

\* files.sort_by(lower-cased name), for files of distinct lower-cased names.
RECURSIVE sort_by_name(_)
sort_by_name(S) ==
    IF S = {} THEN <<>>
    ELSE LET m == CHOOSE x \in S :
                    \A y \in S \ {x} : StrLess(to_lowercase(x), to_lowercase(y))
         IN  <<m>> \o sort_by_name(S \ {m})

\* files::discover on a directory of these names: the names of the
\* TextFiles, in order; an error when there is none.
discover_files(d) ==
    LET kept == {n \in d : is_supported_extension(n)}
    IN  IF kept = {} THEN [ok |-> FALSE, files |-> <<>>]
        ELSE [ok |-> TRUE, files |-> sort_by_name(kept)]

\* usize::saturating_sub
saturating_sub(a, b) == IF a > b THEN a - b ELSE 0

\* App::new.  The indices of filtered_indices are 0-based, as in the code.
new(fs) ==
    [files |-> fs,
     filtered_indices |-> [k \in 1..Len(fs) |-> k - 1],
     selected_index |-> 0,
     search_query |-> <<>>]

\* update_filter leaving the selection where it is.
update_filter_keep(a) ==
    LET query == to_lowercase(a.search_query)
        kept == SelectSeq([k \in 1..Len(a.files) |-> k - 1],
                          LAMBDA ix : query = <<>>
                                      \/ contains(to_lowercase(a.files[ix + 1]), query))
    IN  [a EXCEPT !.filtered_indices = kept]

\* App::update_filter
update_filter(a) ==
    LET query == to_lowercase(a.search_query)
        kept == SelectSeq([k \in 1..Len(a.files) |-> k - 1],
                          LAMBDA ix : query = <<>>
                                      \/ contains(to_lowercase(a.files[ix + 1]), query))
    IN  [a EXCEPT !.filtered_indices = kept,
                  !.selected_index = IF a.selected_index >= Len(kept) THEN 0
                                     ELSE a.selected_index]

\* move_up stopping at the top.
move_up_clamped(a) ==
    IF a.filtered_indices = <<>> THEN a
    ELSE IF a.selected_index > 0
    THEN [a EXCEPT !.selected_index = a.selected_index - 1]
    ELSE a

\* App::move_up
move_up(a) ==
    IF a.filtered_indices = <<>> THEN a
    ELSE IF a.selected_index > 0
    THEN [a EXCEPT !.selected_index = a.selected_index - 1]
    ELSE [a EXCEPT !.selected_index = saturating_sub(Len(a.filtered_indices), 1)]

\* App::move_down
move_down(a) ==
    IF a.filtered_indices = <<>> THEN a
    ELSE IF a.selected_index < saturating_sub(Len(a.filtered_indices), 1)
    THEN [a EXCEPT !.selected_index = a.selected_index + 1]
    ELSE [a EXCEPT !.selected_index = 0]

\* App::get_selected: the name of the file selected, if there is one.
get_selected(a) ==
    IF a.selected_index < Len(a.filtered_indices)
       /\ a.filtered_indices[a.selected_index + 1] < Len(a.files)
    THEN [some |-> TRUE, name |-> a.files[a.filtered_indices[a.selected_index + 1] + 1]]
    ELSE [some |-> FALSE, name |-> <<>>]

\* add_search_char that leaves the filter as it was.
add_search_char_no_filter(a, c) ==
    [a EXCEPT !.search_query = Append(a.search_query, c)]

\* App::add_search_char
add_search_char(a, c) ==
    update_filter([a EXCEPT !.search_query = Append(a.search_query, c)])

\* App::remove_search_char
remove_search_char(a) ==
    update_filter([a EXCEPT !.search_query =
                       SubSeq(a.search_query, 1, Len(a.search_query) - 1)])

\* refresh_files clearing the query and the selection before it discovers.
refresh_files_clearing(a, d) ==
    LET found == discover_files(d)
        new_count == Len(found.files)
        old_count == Len(a.files)
    IN  IF ~found.ok
        THEN [app |-> [a EXCEPT !.search_query = <<>>,
                                !.filtered_indices = [k \in 1..Len(a.files) |-> k - 1],
                                !.selected_index = 0],
              ok |-> FALSE, ret |-> 0]
        ELSE [app |-> new(found.files),
              ok |-> TRUE,
              ret |-> saturating_sub(new_count, Min(old_count, new_count))
                      + saturating_sub(old_count, Min(new_count, old_count))]

\* App::refresh_files with the directory holding d: the App after it and
\* the Result returned.
refresh_files(a, d) ==
    LET found == discover_files(d)
        new_count == Len(found.files)
        old_count == Len(a.files)
    IN  IF ~found.ok THEN [app |-> a, ok |-> FALSE, ret |-> 0]
        ELSE [app |-> new(found.files),
              ok |-> TRUE,
              ret |-> saturating_sub(new_count, Min(old_count, new_count))
                      + saturating_sub(old_count, Min(new_count, old_count))]

\* No App operation yet.
NoOp == [op |-> "new", ok |-> TRUE, ret |-> 0, before |-> new(<<>>)]

\* A file is created in the directory, or deleted from it.
fs_change ==
    /\ uiPc = "app"
    /\ \E n \in DirNames : dir' = IF n \in dir THEN dir \ {n} ELSE dir \cup {n}
    /\ UNCHANGED <<envVars, uiVars, sendVars, statics, files, preflight, loc, thr,
                   app, appLog, pauses, view>>

\* The App's operations, called one at a time: appLog keeps the name of the
\* last one, what it returned, and the App it was called on.
app_move_up ==
    /\ uiPc = "app"
    /\ app' = move_up(app)
    /\ appLog' = [op |-> "move_up", ok |-> TRUE, ret |-> 0, before |-> app]
    /\ UNCHANGED <<envVars, uiVars, sendVars, statics, files, preflight, loc, thr, dir, pauses, view>>

app_move_down ==
    /\ uiPc = "app"
    /\ app' = move_down(app)
    /\ appLog' = [op |-> "move_down", ok |-> TRUE, ret |-> 0, before |-> app]
    /\ UNCHANGED <<envVars, uiVars, sendVars, statics, files, preflight, loc, thr, dir, pauses, view>>

app_add_search_char ==
    /\ uiPc = "app"
    /\ Len(app.search_query) < MaxQuery
    /\ \E c \in SearchChars : app' = add_search_char(app, c)
    /\ appLog' = [op |-> "add_search_char", ok |-> TRUE, ret |-> 0, before |-> app]
    /\ UNCHANGED <<envVars, uiVars, sendVars, statics, files, preflight, loc, thr, dir, pauses, view>>

app_remove_search_char ==
    /\ uiPc = "app"
    /\ app' = remove_search_char(app)
    /\ appLog' = [op |-> "remove_search_char", ok |-> TRUE, ret |-> 0, before |-> app]
    /\ UNCHANGED <<envVars, uiVars, sendVars, statics, files, preflight, loc, thr, dir, pauses, view>>

app_refresh_files ==
    /\ uiPc = "app"
    /\ app' = refresh_files(app, dir).app
    /\ appLog' = [op |-> "refresh_files", ok |-> refresh_files(app, dir).ok, ret |-> refresh_files(app, dir).ret, before |-> app]
    /\ UNCHANGED <<envVars, uiVars, sendVars, statics, files, preflight, loc, thr, dir, pauses, view>>

\* ---------------------------------------------------------- the file viewer

\* The heights of the terminal, in rows: too low for a line of content,
\* and with room for 1 to 4 lines.
TermHeights == {4, 7, 8, 9, 10}

\* The keys pressed in the viewer; "Other" stands for every other key.
ViewKeys == {"Up", "Down", "PageUp", "PageDown", "Home", "End", "Other"}

\* The viewer is not open.
NoView == [open |-> FALSE, len |-> 0, visible_lines |-> 0, scroll_offset |-> 0, key |-> "none"]

\* The head of view_file: Tab was pressed on a file of n lines in a
\* terminal of term_height rows.
view_file(n, term_height) ==
    [open |-> TRUE, len |-> n, visible_lines |-> saturating_sub(term_height, 6),
     scroll_offset |-> 0, key |-> "none"]

\* The PageDown arm without the min.
page_down_unclamped(v) == v.scroll_offset + v.visible_lines

\* The PageDown arm of view_file.
page_down(v) ==
    Min(v.scroll_offset + v.visible_lines, saturating_sub(v.len, v.visible_lines))

\* The scroll_offset after a key, by the arms of the match in view_file.
scroll_after(v, code) ==
    CASE code = "Up" -> saturating_sub(v.scroll_offset, 1)
      [] code = "Down" -> IF v.scroll_offset + v.visible_lines < v.len
                          THEN v.scroll_offset + 1 ELSE v.scroll_offset
      [] code = "PageUp" -> saturating_sub(v.scroll_offset, v.visible_lines)
      [] code = "PageDown" -> page_down(v)
      [] code = "Home" -> 0
      [] code = "End" -> saturating_sub(v.len, v.visible_lines)
      [] OTHER -> v.scroll_offset

\* Tab in the browser on the selected file: the viewer opens.
view_open ==
    /\ uiPc = "viewer"
    /\ ~view.open
    /\ \E n \in 1..MaxLines, h \in TermHeights : view' = view_file(n, h)
    /\ UNCHANGED <<envVars, uiVars, sendVars, statics, files, preflight, loc, thr, appVars,
                   pauses>>

\* A key is pressed in the viewer.
view_key ==
    /\ uiPc = "viewer"
    /\ view.open
    /\ \E code \in ViewKeys :
        view' = [view EXCEPT !.scroll_offset = scroll_after(view, code), !.key = code]
    /\ UNCHANGED <<envVars, uiVars, sendVars, statics, files, preflight, loc, thr, appVars,
                   pauses>>

\* A key is released: continue.
view_release ==
    /\ uiPc = "viewer"
    /\ view.open
    /\ UNCHANGED vars

\* Esc or Tab: view_file returns.
view_close ==
    /\ uiPc = "viewer"
    /\ view.open
    /\ view' = NoView
    /\ UNCHANGED <<envVars, uiVars, sendVars, statics, files, preflight, loc, thr, appVars,
                   pauses>>

\* ---------------------------------------------------------- specifications

InitCommon ==
    /\ foreground = 0
    /\ appError = "none"
    /\ lines = <<>>
    /\ i = 0
    /\ outcome = "none"
    /\ calls = <<>>
    /\ failedAt = 0
    /\ cancelMark = -1
    /\ sendPc = "idle"
    /\ text = <<>>
    /\ ci = 0
    /\ result = "none"
    /\ trace = <<>>
    /\ phaseLog = <<>>
    /\ staleHwnd = FALSE
    /\ CHECK_FOUND = FALSE
    /\ CHECK_TERM = <<>>
    /\ FOUND_HWND = 0
    /\ SEARCH_TERM = <<>>
    /\ preflight = "none"
    /\ loc = NoCalls
    /\ thr = [t \in Threads |-> IdleThread]
    /\ dir = {}
    /\ app = new(<<>>)
    /\ appLog = NoOp
    /\ pauses = <<>>
    /\ view = NoView

\* The program: the files are discovered and the browser loop is waiting
\* for a key.
Init ==
    /\ InitCommon
    /\ uiPc = "browse"
    /\ windows = <<>>
    /\ queue = <<>>
    /\ files = [n \in 1..Cardinality(Files) |-> FileLines(n)]

Next ==
    \/ OpenWindow
    \/ CloseWindow
    \/ InjectKey
    \/ run_release
    \/ run_esc
    \/ run_other
    \/ run_enter
    \/ sal_poll
    \/ sal_call
    \/ sal_after
    \/ send_text

Spec == Init /\ [][Next]_vars

\* The library: send_text called directly, with any text.
InitApi == InitCommon /\ uiPc = "api" /\ windows = <<>> /\ queue = <<>> /\ files = <<>>

NextApi ==
    \/ OpenWindow
    \/ CloseWindow
    \/ api_call
    \/ api_return
    \/ send_text

SpecApi == InitApi /\ [][NextApi]_vars

\* The library under the scheduling the code has: send_text is straight-line
\* code on one thread, so a call in progress always takes its next step.
SpecApiFair == SpecApi /\ WF_vars(send_text)

\* The program with its one thread running: send_all_lines and the
\* send_text it calls are not suspended for ever, every sleep ends.
SpecFair ==
    Spec /\ WF_vars(send_text) /\ WF_vars(sal_poll) /\ WF_vars(sal_call) /\ WF_vars(sal_after)

\* The program built for a platform other than Windows.
NextStub ==
    \/ InjectKey
    \/ run_release
    \/ run_esc
    \/ run_other
    \/ run_enter_stub
    \/ sal_poll
    \/ sal_call
    \/ sal_after
    \/ send_text_stub

SpecStub == Init /\ [][NextStub]_vars

\* The program started in a directory with one file, of any contents
\* discover makes a TextFile of, the target window open; the user presses
\* Enter on the file.
InitFiles ==
    /\ InitCommon
    /\ uiPc = "browse"
    /\ windows = <<1>>
    /\ queue = <<[code |-> "Enter", kind |-> "Press"]>>
    /\ \E raw \in RawContents :
        /\ files = discover(<<raw>>)
        /\ files # <<>>

NextFiles ==
    \/ run_enter
    \/ sal_poll
    \/ sal_call
    \/ sal_after
    \/ send_text

SpecFiles == InitFiles /\ [][NextFiles]_vars

\* The locator called directly, one call after the other, with any title and
\* any set of windows in any enumeration order; windows close between calls.
InitLocator ==
    /\ InitCommon
    /\ uiPc = "locator"
    /\ windows \in WindowOrders(LocHandles)
    /\ queue = <<>>
    /\ files = <<>>

NextLocator ==
    \/ loc_close
    \/ loc_is_window_running
    \/ loc_focus_window

SpecLocator == InitLocator /\ [][NextLocator]_vars

\* The locator called by two threads at once.
InitThreads ==
    /\ InitCommon
    /\ uiPc = "threads"
    /\ windows \in WindowOrders(Handles)
    /\ queue = <<>>
    /\ files = <<>>

NextThreads ==
    \E t \in Threads :
        \/ thr_call(t)
        \/ thr_check_set(t)
        \/ thr_check_callback(t)
        \/ thr_check_return(t)
        \/ thr_focus_set(t)
        \/ thr_focus_reset(t)
        \/ thr_focus_callback(t)
        \/ thr_focus_return(t)

SpecThreads == InitThreads /\ [][NextThreads]_vars

\* ------------------------------------------------------- what claims read

\* The key events of a trace, in order.
KeysOf(tr) == SelectSeq(tr, LAMBDA e : e.op \in {"down", "up"})

\* The activation requests of a trace.
RequestsOf(tr) == SelectSeq(tr, LAMBDA e : e.kind = "hwnd")

\* Some open window's title contains the target, whatever the case.
TargetOpen ==
    \E k \in 1..Len(windows) :
        contains(to_lowercase(TitleOf(windows[k])), to_lowercase(WindowTitle))

\* send_char(c) as the key events it emits.
send_char(c) ==
    IF CharDirect(c)
    THEN IF CharShift(c)
         THEN <<send_key_down(VK_SHIFT), send_key_down(CharVk(c)),
                send_key_up(CharVk(c)), send_key_up(VK_SHIFT)>>
         ELSE <<send_key_down(CharVk(c)), send_key_up(CharVk(c))>>
    ELSE <<unicode_down(AsU16(c)), unicode_up(AsU16(c))>>

\* The per-character sequences of t, concatenated in text order.
RECURSIVE CharsInOrder(_)
CharsInOrder(t) ==
    IF t = <<>> THEN <<>> ELSE send_char(Head(t)) \o CharsInOrder(Tail(t))

\* The key events of a complete send of t.
FullKeys(t) ==
    <<send_key_down(VK_SHIFT), send_key_down(VK_RETURN), send_key_up(VK_RETURN),
      send_key_up(VK_SHIFT)>>
    \o CharsInOrder(t)
    \o <<send_key_down(VK_RETURN), send_key_up(VK_RETURN)>>

\* The keys of a trace, and how many down events of a key are outstanding.
KeysIn(tr) == {[kind |-> tr[k].kind, val |-> tr[k].val] : k \in {n \in 1..Len(tr) : tr[n].op \in {"down", "up"}}}
Outstanding(tr, key) ==
    Cardinality({k \in 1..Len(tr) : tr[k].op = "down" /\ tr[k].kind = key.kind /\ tr[k].val = key.val})
    - Cardinality({k \in 1..Len(tr) : tr[k].op = "up" /\ tr[k].kind = key.kind /\ tr[k].val = key.val})
Held(tr) == {key \in KeysIn(tr) : Outstanding(tr, key) > 0}
ShiftKey == [kind |-> "vk", val |-> VK_SHIFT]

\* The steps of send_text, in the order of the specification.
PhaseOrder ==
    <<"CheckRunning", "Activate", "Settle", "OpenChat", "OpenSettle", "Type",
      "TypeSettle", "Submit", "SendSettle">>

IsPrefix(s, t) == Len(s) <= Len(t) /\ SubSeq(t, 1, Len(s)) = s

\* ------------------------------------------------------------------ claims

\* C1: when the pre-check of send_text finds no window whose title contains
\* the target, the call returns the TargetNotRunning failure at once, and a
\* call that returned it has emitted no key event and made no activation
\* request.
C1_TargetNotRunning ==
    [][/\ (sendPc = "check" /\ sendPc' # "check" /\ ~TargetOpen)
            => (sendPc' = "ret" /\ result' = "TargetNotRunning")
       /\ result' = "TargetNotRunning"
            => (KeysOf(trace') = <<>> /\ RequestsOf(trace') = <<>>
                /\ phaseLog' = <<"CheckRunning">>)]_vars

\* C1's case: a call has returned TargetNotRunning with a window open whose
\* title does not contain the target.
C1_Witness ==
    sendPc = "ret" /\ result = "TargetNotRunning" /\ windows = <<2>> /\ uiPc = "wait"

\* C2: when the pre-check succeeded and no matching window is left when
\* focus_window enumerates, the call returns the WindowNotFound failure (not
\* TargetNotRunning), and a call that returned it has emitted no key event.
C2_WindowNotFound ==
    [][/\ (sendPc = "focus_scan" /\ sendPc' # "focus_scan" /\ ~TargetOpen)
            => (sendPc' = "ret" /\ result' = "WindowNotFound" /\ CHECK_FOUND)
       /\ result' = "WindowNotFound"
            => (KeysOf(trace') = <<>> /\ phaseLog' = <<"CheckRunning", "Activate">>)]_vars

\* C2's case: the pre-check found the window, focus_window did not.
C2_Witness ==
    sendPc = "ret" /\ result = "WindowNotFound" /\ CHECK_FOUND /\ FOUND_HWND = 0

\* C3: the key events of a successful send_text call are Shift-down,
\* Enter-down, Enter-up, Shift-up, the events of each character of the text
\* in text order, Enter-down, Enter-up, and nothing else.
C3_TraceInOrder ==
    result = "Ok" => KeysOf(trace) = FullKeys(text)

\* C3's case: send_text("Hi", ...) has returned Ok.
C3_Witness ==
    result = "Ok" /\ sendPc = "ret" /\ text = <<72, 105>>

\* C4: all through a call no key has two outstanding down events, at most one
\* key other than Shift is down, a second key is down only while Shift is
\* held, no key is down where a character begins, and none when the call
\* returns.
C4_KeysReleased ==
    /\ \A key \in KeysIn(trace) : Outstanding(trace, key) \in {0, 1}
    /\ Cardinality(Held(trace) \ {ShiftKey}) <= 1
    /\ Cardinality(Held(trace)) >= 2 => ShiftKey \in Held(trace)
    /\ sendPc \in {"c_shift_down", "c_uni_down", "type_settle", "ret", "idle"}
        => Held(trace) = {}
    /\ (sendPc = "c_key_down" /\ ~CharShift(text[ci + 1])) => Held(trace) = {}

\* C4's case: Shift is held across the press of the key of 'H'.
C4_Witness ==
    sendPc = "c_key_up" /\ Held(trace) = {ShiftKey, [kind |-> "vk", val |-> 72]}

\* C5, as claimed: when the window focus_window found is closed by the time
\* it makes its requests, the call emits no key event and returns
\* WindowNotFound.
C5_ClosedBeforeActivate ==
    /\ staleHwnd => KeysOf(trace) = <<>>
    /\ (staleHwnd /\ sendPc = "ret") => result = "WindowNotFound"

\* C6: once the send of line k of a batch has failed, send_text has been
\* called for lines 1..k, once each, and for no other; no call is in
\* progress and the failed call emitted no key event; this stays so until
\* the user starts another batch.
C6_FailFast ==
    failedAt # 0 =>
        /\ calls = [k \in 1..failedAt |-> k]
        /\ sendPc = "idle"
        /\ KeysOf(trace) = <<>>
        /\ outcome = "failed"
        /\ uiPc \in {"browse", "exited"}

\* C6's case: line 2 of a batch of more lines has failed.
C6_Witness ==
    failedAt = 2 /\ Len(lines) > 2 /\ uiPc = "browse"

C8_NoMidLineCancel ==
    /\ uiPc # "wait" => KeysOf(trace) \in {<<>>, FullKeys(text)}
    /\ (uiPc = "wait" /\ sendPc = "ret") => KeysOf(trace) \in {<<>>, FullKeys(text)}
    /\ uiPc = "wait" => outcome = "running"

\* C8's case: an Esc is waiting in the queue while a line is half typed.
C8_Witness ==
    /\ uiPc = "wait"
    /\ sendPc = "c_key_up"
    /\ queue # <<>>
    /\ Head(queue).code = "Esc"

\* C9: a call enters the steps of send_text in the order of PhaseOrder, each
\* at most once; it has returned Ok exactly when it has entered them all; no
\* failure is returned once Settle is entered; and a call that has entered
\* Settle goes on to return Ok.
C9_Linear ==
    /\ [](/\ IsPrefix(phaseLog, PhaseOrder)
          /\ (result = "Ok") = (phaseLog = PhaseOrder)
          /\ Len(phaseLog) >= 3 => result \in {"none", "Ok"})
    /\ (Len(phaseLog) >= 3) ~> (result = "Ok")

\* C9's case: a call has returned Ok.
C9_Witness ==
    sendPc = "ret" /\ result = "Ok" /\ phaseLog = PhaseOrder

\* C10: type_text("") emits no key event and sleeps not at all: the trace is
\* the same after it as before, and send_text is at its next step.
C10_EmptyText ==
    [][(sendPc = "type" /\ sendPc' # "type" /\ text = <<>>)
        => (trace' = trace /\ sendPc' = "type_settle")]_vars

\* C10's case: type_text("") has returned.
C10_Witness ==
    text = <<>> /\ sendPc = "type_settle" /\ phaseLog[Len(phaseLog)] = "Type"

\* ----------------------------------------------- claims on send_char

\* The layout has a key for the character c: c is one UTF-16 unit and
\* VkKeyScanW knows it.
LayoutHasKey(c) == c < 65536 /\ VkKeyScanW(c) # -1

\* A character of the text is being sent.
InSendChar ==
    sendPc \in {"c_shift_down", "c_key_down", "c_key_up", "c_shift_up",
                "c_uni_down", "c_uni_up"}

\* C11, as claimed: a character the layout has no key for, above U+FFFF or
\* not, is sent as a Unicode fallback down/up pair, never as virtual-key
\* events.
C11_EncodingTotal ==
    (InSendChar /\ ~LayoutHasKey(text[ci + 1]))
        => sendPc \in {"c_uni_down", "c_uni_up"}

\* C12, as claimed: the down and the up event of a Unicode fallback both
\* carry the code point of the character being sent.
C12_FallbackCodePoint ==
    LET keys == KeysOf(trace)
        last == keys[Len(keys)]
    IN  /\ sendPc = "c_uni_up" => last = unicode_down(text[ci + 1])
        /\ (ci >= 1 /\ keys # <<>> /\ last.kind = "uni" /\ last.op = "up")
                => last = unicode_up(text[ci])

\* What send_char is specified to add to the trace for a character the
\* layout has a key for.
DirectEntries(c) ==
    LET vk == VkKeyScanW(c) % 256
        shift == (VkKeyScanW(c) \div 256) % 2 = 1
    IN  IF shift
        THEN <<send_key_down(VK_SHIFT), sleep(SHIFT_KEY_DELAY_MS),
               send_key_down(vk), sleep(KEY_PRESS_DELAY_MS),
               send_key_up(vk), sleep(SHIFT_KEY_DELAY_MS),
               send_key_up(VK_SHIFT), sleep(CHAR_TYPE_DELAY_MS)>>
        ELSE <<send_key_down(vk), sleep(KEY_PRESS_DELAY_MS),
               send_key_up(vk), sleep(CHAR_TYPE_DELAY_MS)>>

\* The key events the first n characters of t add: those of DirectEntries
\* for a character with a key, those send_char emits for any other.
RECURSIVE KeysUpTo(_, _)
KeysUpTo(t, n) ==
    IF n = 0 THEN <<>>
    ELSE KeysUpTo(t, n - 1)
         \o (IF LayoutHasKey(t[n]) THEN KeysOf(DirectEntries(t[n])) ELSE send_char(t[n]))

\* send_text stands between two characters, or after the last.
AtCharBoundary == sendPc = CharPc(ci) /\ sendPc \notin {"idle", "ret"}

\* C13: where a character ends, the key events since the chat was opened
\* are those of the characters typed so far, a character with a key having
\* added exactly down, up of its key, within Shift-down and Shift-up when it
\* needs Shift; the trace ends with that character's events and sleeps, the
\* release of Shift before the inter-character sleep; and no key is held.
C13_DirectSequence ==
    AtCharBoundary =>
        /\ KeysOf(trace) = SubSeq(FullKeys(<<>>), 1, 4) \o KeysUpTo(text, ci)
        /\ Held(trace) = {}
        /\ (ci >= 1 /\ LayoutHasKey(text[ci])) =>
                LET n == Len(DirectEntries(text[ci]))
                IN  /\ Len(trace) >= n
                    /\ SubSeq(trace, Len(trace) - n + 1, Len(trace)) = DirectEntries(text[ci])

\* C13's case: "Hi" typed whole, 'H' with Shift and 'i' without.
C13_Witness ==
    AtCharBoundary /\ ci = 2 /\ text = <<72, 105>>

\* ---------------------------------------------- claims on the window locator

\* The title of a window as it can be read: what the buffer takes of it.
ReadableTitle(h) == SubSeq(TitleOf(h), 1, Min(Len(TitleOf(h)), TitleBufLen - 1))

\* The places in the enumeration order ws of the windows whose readable
\* title is not empty and contains t, whatever the case.
MatchIdx(ws, t) ==
    {k \in 1..Len(ws) :
        /\ ReadableTitle(ws[k]) # <<>>
        /\ contains(to_lowercase(ReadableTitle(ws[k])), to_lowercase(t))}

\* The first of them in the enumeration order; 0 when there is none.
FirstMatch(ws, t) ==
    IF MatchIdx(ws, t) = {} THEN 0
    ELSE ws[CHOOSE k \in MatchIdx(ws, t) : \A j \in MatchIdx(ws, t) : k <= j]

\* C14, as claimed: with two threads calling the locator at once, each call
\* returns what its own title and the open windows determine: true exactly
\* when some window's title contains the title the call was given.
C14_NoSharedState ==
    \A t \in Threads :
        thr[t].pc = "done" => thr[t].ret = (MatchIdx(windows, thr[t].title) # {})

\* C15: whatever the statics hold from earlier calls, a focus_window call
\* made when no window matches returns false, makes no activation request
\* and leaves no handle stored; an is_window_running call made then
\* returns false.
C15_NoCarryOver ==
    /\ (loc.focus.called /\ MatchIdx(windows, loc.focus.title) = {})
            => (~loc.focus.ret /\ loc.focus.requests = <<>> /\ FOUND_HWND = 0)
    /\ (loc.running.called /\ MatchIdx(windows, loc.running.title) = {})
            => (~loc.running.ret /\ ~CHECK_FOUND)

\* C15's case: focus_window returned false for the target although the
\* static held the handle an earlier call had found, and is_window_running,
\* whose static held true, returned false.
C15_Witness ==
    /\ loc.focus.called
    /\ loc.focus.title = WindowTitle
    /\ loc.focus.before # 0
    /\ ~loc.focus.ret
    /\ loc.running.called
    /\ loc.running.title = WindowTitle
    /\ loc.running.before
    /\ ~loc.running.ret
    /\ windows # <<>>

\* C16: focus_window locates the first window in the enumeration order whose
\* readable, non-empty title contains the title asked for, whatever the
\* case, and makes its requests on that window; it locates none exactly when
\* no window matches; is_window_running returns true exactly when one does.
C16_FirstMatch ==
    /\ loc.focus.called =>
            /\ loc.focus.hwnd = FirstMatch(windows, loc.focus.title)
            /\ loc.focus.ret = (MatchIdx(windows, loc.focus.title) # {})
            /\ \A k \in 1..Len(loc.focus.requests) :
                    loc.focus.requests[k].kind = "hwnd"
                        => loc.focus.requests[k].val = loc.focus.hwnd
    /\ loc.running.called =>
            loc.running.ret = (MatchIdx(windows, loc.running.title) # {})

\* C16's case: the enumeration starts with a window without title and one
\* whose title matches only beyond the buffer; of the two matching windows
\* the one enumerated first is located.
C16_Witness ==
    /\ windows = <<3, 5, 4, 2, 1>>
    /\ loc.focus.called
    /\ loc.focus.title = WindowTitle
    /\ loc.focus.hwnd = 4

\* C17: for the same title and the same windows is_window_running returns
\* true exactly when focus_window locates a window; and a step that is not
\* a focus_window call (an is_window_running call is one) changes neither
\* the foreground window, nor the windows, nor the handle stored.
C17_SameScan ==
    /\ []((loc.running.called /\ loc.focus.called
            /\ loc.running.title = loc.focus.title)
                => /\ loc.running.ret = (loc.focus.hwnd # 0)
                   /\ loc.running.ret = loc.focus.ret)
    /\ [][(loc'.running # loc.running /\ loc'.running.called)
            => (foreground' = foreground /\ windows' = windows
                /\ FOUND_HWND' = FOUND_HWND /\ loc'.focus = loc.focus)]_vars

\* C17's case: both functions were called for the target, whose case no
\* window's title has; both found it.
C17_Witness ==
    /\ loc.running.called
    /\ loc.focus.called
    /\ loc.running.title = WindowTitle
    /\ loc.focus.title = WindowTitle
    /\ loc.running.ret
    /\ windows = <<2, 1>>

\* --------------------------------------- claims on the UI and on the files

\* The terminal is set up for the browser (Cli::init), not torn down
\* (Cli::cleanup) for a batch or at exit.
TerminalUp == uiPc = "browse"

\* C19: when Enter is pressed with a file selected and no window's title
\* contains the target, the pre-flight check returns false, the error
\* message is set to the not-running message, the terminal stays set up,
\* send_all_lines is not entered and send_text is not called.
C19_Preflight ==
    [][(/\ uiPc = "browse"
        /\ queue # <<>>
        /\ Head(queue) = [code |-> "Enter", kind |-> "Press"]
        /\ queue' = Tail(queue)
        /\ preflight' # "none"
        /\ ~TargetOpen)
        => (/\ preflight' = "false"
            /\ appError' = "not_running"
            /\ TerminalUp'
            /\ UNCHANGED <<lines, i, outcome, calls, failedAt, sendVars>>)]_vars

\* C19's case: Enter was pressed on a file while only a window that does not
\* match was open.
C19_Witness ==
    /\ preflight = "false"
    /\ appError = "not_running"
    /\ uiPc = "browse"
    /\ windows = <<2>>
    /\ sendPc = "idle"

\* C18: on a platform other than Windows no call of send_text returns Ok or
\* emits a key event or makes a request; a call that has returned has
\* returned the UnsupportedPlatform failure; so a batch calls send_text for
\* its first line at most, never gets beyond it and never ends done.
C18_Unsupported ==
    /\ result \in {"none", "UnsupportedPlatform"}
    /\ trace = <<>>
    /\ sendPc = "ret" => result = "UnsupportedPlatform"
    /\ calls \in {<<>>, <<1>>}
    /\ i <= 1
    /\ outcome \in {"none", "running", "cancelled", "failed"}
    /\ failedAt \in {0, 1}
    /\ (uiPc = "browse" /\ calls = <<1>>) => (outcome = "failed" /\ failedAt = 1)

\* C18's case: a batch of five lines has stopped at its first.
C18_Witness ==
    /\ uiPc = "browse"
    /\ outcome = "failed"
    /\ failedAt = 1
    /\ Len(lines) = 5
    /\ result = "UnsupportedPlatform"

\* A string equal to its trimmed form: no white space at either end.
IsTrimmed(s) == s = <<>> \/ (~IsWhitespace(s[1]) /\ ~IsWhitespace(s[Len(s)]))

\* C20: every file discovered has at least one line, each of its lines
\* non-empty and equal to its trimmed form; a batch is the lines of one of
\* the files, at least one; and the text of every send_text call is the
\* line of the batch the loop stands at, non-empty and trimmed.
C20_LinesTrimmed ==
    /\ \A k \in 1..Len(files) :
            /\ Len(files[k]) >= 1
            /\ \A j \in 1..Len(files[k]) :
                    files[k][j] # <<>> /\ IsTrimmed(files[k][j])
    /\ uiPc \in {"poll", "call", "wait"} =>
            /\ Len(lines) >= 1
            /\ \E k \in 1..Len(files) : lines = files[k]
    /\ sendPc # "idle" =>
            /\ text = lines[i]
            /\ text # <<>>
            /\ IsTrimmed(text)

\* C20's case: the second line of a file of two lines is being sent.
C20_Witness ==
    /\ uiPc = "wait"
    /\ sendPc = "c_key_down"
    /\ i = 2
    /\ lines = << <<72>>, <<97>> >>
    /\ text = <<97>>

\* ------------------------------------------------ claims on the sleeps

IsKey(e) == e.op \in {"down", "up"}

\* The place in the trace tr of its m-th key event.
KeyIdx(tr, m) ==
    CHOOSE k \in 1..Len(tr) :
        IsKey(tr[k]) /\ Cardinality({j \in 1..k : IsKey(tr[j])}) = m

\* C21: in the trace of a call a key pressed by send_key_press (any key but
\* Shift) is followed by the KEY_PRESS_DELAY sleep and then by its release;
\* the FOCUS_DELAY sleep comes just before the first key event; the
\* CHAT_OPEN_DELAY sleep just after the Shift-up of the chat hotkey, before
\* anything typed; the CHAR_TYPE_DELAY sleep ends every character; and a
\* call that returned Ok ended with the AFTER_TYPE_DELAY sleep, Enter-down,
\* the KEY_PRESS_DELAY sleep, Enter-up and the AFTER_SEND_DELAY sleep.
C21_SleepPlaces ==
    LET n == Len(trace)
        nkeys == Len(KeysOf(trace))
    IN  /\ \A k \in 1..n :
                (trace[k].op = "down" /\ trace[k].kind = "vk" /\ trace[k].val # VK_SHIFT)
                    => /\ k + 1 <= n
                       /\ trace[k + 1] = sleep(KEY_PRESS_DELAY_MS)
                       /\ k + 2 <= n => trace[k + 2] = send_key_up(trace[k].val)
        /\ \A k \in 1..n :
                (trace[k].op = "up" /\ trace[k].kind = "vk" /\ trace[k].val # VK_SHIFT)
                    => /\ k > 2
                       /\ trace[k - 1] = sleep(KEY_PRESS_DELAY_MS)
                       /\ trace[k - 2] = send_key_down(trace[k].val)
        /\ nkeys >= 1 =>
                /\ KeyIdx(trace, 1) > 1
                /\ trace[KeyIdx(trace, 1) - 1] = sleep(FOCUS_DELAY_MS)
        /\ nkeys >= 4 =>
                /\ trace[KeyIdx(trace, 4)] = send_key_up(VK_SHIFT)
                /\ n > KeyIdx(trace, 4)
                        => trace[KeyIdx(trace, 4) + 1] = sleep(CHAT_OPEN_DELAY_MS)
                /\ (nkeys >= 5 /\ text # <<>>)
                        => KeyIdx(trace, 5) = KeyIdx(trace, 4) + 2
        /\ (AtCharBoundary /\ ci >= 1) => trace[n] = sleep(CHAR_TYPE_DELAY_MS)
        /\ (AtCharBoundary /\ ci = 0) => trace[n] = sleep(CHAT_OPEN_DELAY_MS)
        /\ result = "Ok" =>
                /\ n >= 5
                /\ trace[n] = sleep(AFTER_SEND_DELAY_MS)
                /\ trace[n - 1] = send_key_up(VK_RETURN)
                /\ trace[n - 2] = sleep(KEY_PRESS_DELAY_MS)
                /\ trace[n - 3] = send_key_down(VK_RETURN)
                /\ trace[n - 4] = sleep(AFTER_TYPE_DELAY_MS)

\* C21's case: "H" and a check mark were sent, and the call returned Ok.
C21_Witness ==
    result = "Ok" /\ sendPc = "ret" /\ text = <<72, 10003>>

\* C22: a focus_window call made while the foreground window is an open
\* window whose title contains the title asked for returns true; when that
\* window is the one the call locates, it makes its requests on it and the
\* foreground window is the same after the call.  With the foreground a
\* window, an earlier focus_window call has put it there: this is so for
\* every call in a row.
C22_Idempotent ==
    LET f == loc.focus
    IN  (f.called /\ f.fg # 0 /\ f.fg \in {windows[k] : k \in MatchIdx(windows, f.title)})
            => /\ f.ret
               /\ f.fg = FirstMatch(windows, f.title)
                    => (f.hwnd = f.fg /\ foreground = f.fg
                        /\ RequestsOf(f.requests) =
                            <<ShowWindow(f.fg, "restore"), ShowWindow(f.fg, "show"),
                              SetForegroundWindow(f.fg)>>)

\* C22's case: focus_window was called for the target with window 4 in the
\* foreground, which the call before it had located; it located it again.
C22_Witness ==
    /\ loc.focus.called
    /\ loc.focus.title = WindowTitle
    /\ loc.focus.fg = 4
    /\ loc.focus.before = 4
    /\ loc.focus.hwnd = 4
    /\ loc.focus.ret
    /\ foreground = 4

\* The App called directly: it is made of the files discovered at start-up
\* (the program ends there when discovery fails), then its operations are
\* called in any order while files come and go in the directory.
InitApp ==
    /\ foreground = 0
    /\ appError = "none"
    /\ lines = <<>>
    /\ i = 0
    /\ outcome = "none"
    /\ calls = <<>>
    /\ failedAt = 0
    /\ cancelMark = -1
    /\ sendPc = "idle"
    /\ text = <<>>
    /\ ci = 0
    /\ result = "none"
    /\ trace = <<>>
    /\ phaseLog = <<>>
    /\ staleHwnd = FALSE
    /\ CHECK_FOUND = FALSE
    /\ CHECK_TERM = <<>>
    /\ FOUND_HWND = 0
    /\ SEARCH_TERM = <<>>
    /\ preflight = "none"
    /\ loc = NoCalls
    /\ thr = [t \in Threads |-> IdleThread]
    /\ uiPc = "app"
    /\ windows = <<>>
    /\ queue = <<>>
    /\ files = <<>>
    /\ dir \in {d \in SUBSET DirNames : discover_files(d).ok}
    /\ app = new(discover_files(dir).files)
    /\ appLog = [NoOp EXCEPT !.before = app]
    /\ pauses = <<>>
    /\ view = NoView

NextApp ==
    \/ fs_change
    \/ app_move_up
    \/ app_move_down
    \/ app_add_search_char
    \/ app_remove_search_char
    \/ app_refresh_files

SpecApp == InitApp /\ [][NextApp]_vars

\* The names of the files of a list.
NamesOf(fs) == {fs[k] : k \in 1..Len(fs)}

\* C23: a refresh_files call that succeeds returns the number of files of
\* the new list that were not in the old one plus the number of files of
\* the old list that are not in the new one.
C23_ChangedCount ==
    (appLog.op = "refresh_files" /\ appLog.ok)
        => appLog.ret = Cardinality(NamesOf(app.files) \ NamesOf(appLog.before.files))
                        + Cardinality(NamesOf(appLog.before.files) \ NamesOf(app.files))

\* C24: on a filtered list that is not empty, move_up from index 0 selects
\* the last index and from any other index the one before it, move_down
\* from the last index selects 0 and from any other index the one after
\* it; on an empty filtered list both leave the selection as it was.
\* Neither changes the filtered list.
C24_SelectionWraps ==
    LET b == appLog.before
        n == Len(b.filtered_indices)
    IN  /\ appLog.op \in {"move_up", "move_down"}
            => /\ app.filtered_indices = b.filtered_indices
               /\ n = 0 => app.selected_index = b.selected_index
        /\ (appLog.op = "move_up" /\ n > 0)
            => app.selected_index = IF b.selected_index = 0 THEN n - 1
                                    ELSE b.selected_index - 1
        /\ (appLog.op = "move_down" /\ n > 0)
            => app.selected_index = IF b.selected_index = n - 1 THEN 0
                                    ELSE b.selected_index + 1

\* C24's case: move_up was called with the first of three files selected,
\* and the third is selected now.
C24_Witness ==
    /\ appLog.op = "move_up"
    /\ Len(appLog.before.filtered_indices) = 3
    /\ appLog.before.selected_index = 0
    /\ app.selected_index = 2

\* The name has an extension (a last '.' that is not its first character,
\* and what follows it) which lower-cased is "txt" or "md".
HasTextExtension(name) ==
    \E k \in 2..Len(name) :
        /\ name[k] = 46
        /\ \A j \in (k + 1)..Len(name) : name[j] # 46
        /\ LET low == [j \in 1..(Len(name) - k) |-> LowerChar(name[k + j])]
           IN  low = <<116, 120, 116>> \/ low = <<109, 100>>

\* C25: is_supported_extension is true of exactly the names that have an
\* extension which lower-cased is txt or md: a refresh that succeeds lists
\* those names of the directory and no other, and a refresh fails only
\* when the directory has no such name.
C25_SupportedExtension ==
    [][app_refresh_files
        => IF appLog'.ok
           THEN NamesOf(app'.files) = {n \in dir : HasTextExtension(n)}
           ELSE {n \in dir : HasTextExtension(n)} = {}]_vars

\* C25's case: the directory holds all six names, among them an upper-case
\* extension, another extension, a name with none and a dot file, and the
\* refresh listed three of them.
C25_Witness ==
    /\ appLog.op = "refresh_files"
    /\ appLog.ok
    /\ dir = DirNames
    /\ Len(app.files) = 3
    /\ <<66, 46, 77, 68>> \in NamesOf(app.files)

\* C30: after any sequence of App operations selected_index is less than
\* the length of the filtered list when that list is not empty, and 0 when
\* it is empty; get_selected returns no file exactly when the filtered
\* list is empty.
C30_SelectionInRange ==
    /\ app.filtered_indices # <<>> => app.selected_index < Len(app.filtered_indices)
    /\ app.filtered_indices = <<>> => app.selected_index = 0
    /\ ~get_selected(app).some <=> app.filtered_indices = <<>>

\* C30's case: a character was typed into the search box with the third
\* file selected; two files are left in the list and the first is selected.
C30_Witness ==
    /\ appLog.op = "add_search_char"
    /\ appLog.before.selected_index = 2
    /\ Len(app.filtered_indices) = 2
    /\ app.selected_index = 0

\* C26, as claimed: the key events of every send_text call come after a
\* pre-check that found the window and an activation of it made by that
\* same call, the requests having gone to a window that was there; a call
\* for a later line of a batch that finds no target window open when it
\* checks, enumerates or activates ends there with a failure and without a
\* key event; and the batch stops at a failed call.
C26_RecheckEachLine ==
    /\ [](KeysOf(trace) # <<>>
            => /\ Len(phaseLog) >= 2
               /\ SubSeq(phaseLog, 1, 2) = <<"CheckRunning", "Activate">>
               /\ Len(RequestsOf(trace)) = 3
               /\ SubSeq(trace, 1, 3) = RequestsOf(trace)
               /\ ~staleHwnd)
    /\ [][(/\ uiPc = "wait"
           /\ Len(calls) >= 2
           /\ sendPc \in {"check", "focus_scan", "focus_act"}
           /\ ~TargetOpen
           /\ sendPc' # sendPc)
            => /\ sendPc' = "ret"
               /\ result' \in {"TargetNotRunning", "WindowNotFound"}
               /\ KeysOf(trace') = <<>>]_vars
    /\ [][(uiPc = "wait" /\ sendPc = "ret" /\ result # "Ok" /\ uiPc' # "wait")
            => (uiPc' = "browse" /\ outcome' = "failed" /\ calls' = calls)]_vars

\* C27, as claimed: when the poll at the head of the loop runs with an Esc
\* in the input queue, behind other events or not, the batch stops there,
\* cancelled, and send_text is not called for that line.
C27_CancelBehindOthers ==
    [][(uiPc = "poll" /\ uiPc' # "poll" /\ \E k \in 1..Len(queue) : queue[k].code = "Esc")
        => (uiPc' = "browse" /\ outcome' = "cancelled" /\ calls' = calls)]_vars

\* The first n lines, in file order.
UpTo(n) == [k \in 1..n |-> k]

\* C28: every batch ends; it ends otherwise than done only when its poll
\* read an Esc or a send failed; a batch that ended done made one send_text
\* call for each of its n lines, in file order, and slept the inter-line
\* delay after each; and the call for line i is made with the calls for
\* lines 1..i-1 returned and the inter-line delay slept after each of them.
C28_BatchTerminates ==
    /\ [](/\ outcome = "done"
              => /\ calls = UpTo(Len(lines))
                 /\ failedAt = 0
                 /\ sendPc = "idle"
                 /\ pauses = [k \in 1..Len(lines) |-> NEXT_LINE_DELAY_MS]
                              \o <<1000 * USER_READ_DELAY_SECS>>
          /\ uiPc \in {"poll", "call"}
              => /\ calls = UpTo(i - 1)
                 /\ sendPc = "idle"
                 /\ pauses = [k \in 1..(i - 1) |-> NEXT_LINE_DELAY_MS]
          /\ uiPc = "wait"
              => /\ calls = UpTo(i)
                 /\ pauses = [k \in 1..(i - 1) |-> NEXT_LINE_DELAY_MS])
    /\ [][/\ (outcome = "running" /\ outcome' = "cancelled")
               => (uiPc = "poll" /\ queue # <<>> /\ Head(queue).code = "Esc")
          /\ (outcome = "running" /\ outcome' = "failed")
               => (sendPc = "ret" /\ result # "Ok")]_vars
    /\ (outcome = "running") ~> (outcome \in {"done", "cancelled", "failed"})

\* C28's case: a batch of five lines has ended done.
C28_Witness ==
    /\ outcome = "done"
    /\ Len(lines) = 5
    /\ Len(pauses) = 6
    /\ uiPc = "browse"

\* The modifier keys the layout wants held for the character c: VK_SHIFT,
\* VK_CONTROL (17) and VK_MENU (18, Alt), by the bits of the high byte of
\* VkKeyScanW's result.
RequiredModifiers(c) ==
    LET state == VkKeyScanW(c) \div 256
    IN  {m \in {VK_SHIFT, 17, 18} :
            \/ m = VK_SHIFT /\ state % 2 = 1
            \/ m = 17 /\ (state \div 2) % 2 = 1
            \/ m = 18 /\ (state \div 4) % 2 = 1}

\* C29, as claimed: while the key of a character the layout has a key for
\* is down, the keys held are that key and exactly the modifiers the layout
\* wants for the character.
C29_Modifiers ==
    (sendPc = "c_key_up" /\ LayoutHasKey(text[ci + 1]))
        => Held(trace) = {[kind |-> "vk", val |-> VkKeyScanW(text[ci + 1]) % 256]}
                         \cup {[kind |-> "vk", val |-> m] : m \in RequiredModifiers(text[ci + 1])}

\* The file at the 0-based index ix of the App matches its search query:
\* the query is empty, or some stretch of the name is the query, letter
\* for letter but for the case.
MatchesQuery(a, ix) ==
    LET name == a.files[ix + 1]
        q == a.search_query
    IN  \/ q = <<>>
        \/ \E s \in 0..(Len(name) - Len(q)) :
               \A j \in 1..Len(q) : LowerChar(name[s + j]) = LowerChar(q[j])

\* C31: filtered_indices is the ascending list of the indices of the files
\* whose name contains the search query, whatever the case: every index of
\* it is an index into files, it is strictly ascending, and an index is in
\* it exactly when its file matches.
C31_FilterExact ==
    LET f == app.filtered_indices
    IN  /\ \A k \in 1..Len(f) : f[k] \in 0..(Len(app.files) - 1)
        /\ \A k \in 1..(Len(f) - 1) : f[k] < f[k + 1]
        /\ \A ix \in 0..(Len(app.files) - 1) :
               (\E k \in 1..Len(f) : f[k] = ix) <=> MatchesQuery(app, ix)

\* C31's case: "B" was typed with a.txt, ab.md and B.MD listed; ab.md and
\* B.MD are left.
C31_Witness ==
    /\ appLog.op = "add_search_char"
    /\ app.search_query = <<66>>
    /\ Len(app.files) = 3
    /\ app.filtered_indices = <<1, 2>>

\* C32: a refresh_files call that fails leaves the files, the search
\* query, the filtered indices and the selected index as they were; one
\* that succeeds leaves the query empty, every file listed and the first
\* selected.
C32_FailedRefreshFrame ==
    /\ (appLog.op = "refresh_files" /\ ~appLog.ok)
        => /\ app.files = appLog.before.files
           /\ app.search_query = appLog.before.search_query
           /\ app.filtered_indices = appLog.before.filtered_indices
           /\ app.selected_index = appLog.before.selected_index
    /\ (appLog.op = "refresh_files" /\ appLog.ok)
        => /\ app.search_query = <<>>
           /\ app.selected_index = 0
           /\ app.filtered_indices = [k \in 1..Len(app.files) |-> k - 1]

\* C32's case: the refresh failed, no supported file being left in the
\* directory, with a query typed and the second match selected.
C32_Witness ==
    /\ appLog.op = "refresh_files"
    /\ ~appLog.ok
    /\ app.search_query # <<>>
    /\ app.selected_index = 1
    /\ Len(app.files) = 3

\* The file viewer alone: files are opened in it and keys pressed.
InitViewer ==
    /\ InitCommon
    /\ uiPc = "viewer"
    /\ windows = <<>>
    /\ queue = <<>>
    /\ files = <<>>

NextViewer ==
    \/ view_open
    \/ view_key
    \/ view_release
    \/ view_close

SpecViewer == InitViewer /\ [][NextViewer]_vars

\* C33: in the viewer, whatever keys were pressed, scroll_offset is at
\* least 0 and at most the line count less the visible line count, or 0
\* when that is negative.
C33_ScrollInRange ==
    view.open
        => /\ view.scroll_offset >= 0
           /\ view.scroll_offset <= (IF view.len > view.visible_lines
                                     THEN view.len - view.visible_lines ELSE 0)

\* C33's case: PageDown was pressed one line above the last page of a
\* file of five lines, two of them visible; the last page is shown.
C33_Witness ==
    /\ view.open
    /\ view.key = "PageDown"
    /\ view.len = 5
    /\ view.visible_lines = 2
    /\ view.scroll_offset = 3

====
